---- MODULE Spec2Model ----
(***************************************************************************)
(* Model of the ContextGraph OS decision pipeline.                         *)
(*                                                                         *)
(* Part 1: the decision lifecycle state machine                            *)
(* (src/src/decision/lifecycle.ts, class DecisionStateMachine).            *)
(*                                                                         *)
(* Optional TypeScript fields (`verdict?`, `approval?`, ...) are modelled  *)
(* as sequences of length at most one: << >> is `undefined`, <<x>> is x.   *)
(* An async method runs without interruption up to its first `await` on a  *)
(* promise that is not yet settled; commit() is the only method of the     *)
(* state machine that awaits in the middle of its body, so it is the only  *)
(* one split into several actions.                                         *)
(*                                                                         *)
(* Part 2: the policy engine (src/src/policy/evaluator.ts, the activation  *)
(* window of src/unnamed/part_002, the enforcer of src/unnamed/part_003).  *)
(* evaluatePolicy, evaluateAll and enforce read nothing but their          *)
(* arguments and the clock, so each call is one step.                      *)
(*                                                                         *)
(* Part 3: the approval queue (src/unnamed/part_012, class ApprovalQueue), *)
(* whose methods are synchronous.                                          *)
(*                                                                         *)
(* Part 4: the escalation manager (src/unnamed/part_012, class             *)
(* EscalationManager), which creates its approval requests in the queue of *)
(* Part 3.                                                                 *)
(*                                                                         *)
(* Part 5: the policy conflict resolver                                    *)
(* (src/src/safety/conflict-resolver.ts, class ConflictResolver), whose    *)
(* methods are synchronous.                                                *)
(***************************************************************************)
EXTENDS Integers, Sequences, FiniteSets, Bags, TLC

(***************************************************************************)
(* Bounds of the model                                                     *)
(***************************************************************************)
\* largest reading of the clock (new Date())
MaxClock == 1
\* largest number of decisions kept in the store
MaxDecisions == 1
\* largest number of commit() calls suspended at an await at the same time
MaxInFlight == 1

(***************************************************************************)
(* Input domains                                                           *)
(***************************************************************************)
Undefined == << >>
Some(x) == <<x>>
IsSet(o) == o # << >>

Actors == {"alice", "bob"}
ActionTypes == {"transfer"}
Rationales == {Some("because")}
Reasons == {Undefined, Some("stop")}
Justifications == {Undefined, Some("reviewed")}
Clock == 0..MaxClock

\* VerdictResult of src/src/policy/evaluator.ts
VerdictResults == {"ALLOW", "DENY", "ESCALATE", "ANNOTATE"}

\* ProposeDecisionInput
ProposeInputs == [action : ActionTypes, proposedBy : {"alice"}, rationale : Rationales]

(***************************************************************************)
(* Content addresses                                                       *)
(***************************************************************************)
\* computeContentAddress: "<algorithm>:<hash of the canonical form>".  The
\* hash is taken to be collision free, so an address is the tagged content.
computeContentAddress(content) == <<"sha256", content>>

\* the data hashed by propose()
decisionData(input, proposedAt) ==
  [state |-> "PROPOSED", action |-> input.action, proposedBy |-> input.proposedBy,
   rationale |-> input.rationale, proposedAt |-> proposedAt]

DecisionIds == { computeContentAddress(decisionData(i, t)) : i \in ProposeInputs, t \in Clock }

(***************************************************************************)
(* Transition table                                                        *)
(***************************************************************************)
DecisionState == {"PROPOSED", "EVALUATED", "COMMITTED", "REJECTED", "PENDING_APPROVAL", "CANCELLED"}

\* variant: COMMITTED listed among the targets of PROPOSED
VALID_TRANSITIONS_ProposedCommits ==
  [s \in DecisionState |->
     CASE s = "PROPOSED" -> <<"EVALUATED", "CANCELLED", "COMMITTED">>
       [] s = "EVALUATED" -> <<"COMMITTED", "REJECTED", "PENDING_APPROVAL", "CANCELLED">>
       [] s = "PENDING_APPROVAL" -> <<"COMMITTED", "REJECTED", "CANCELLED">>
       [] OTHER -> << >>]

\* variant: REJECTED is not terminal, a rejected decision can be evaluated again
VALID_TRANSITIONS_RejectedReopens ==
  [s \in DecisionState |->
     CASE s = "PROPOSED" -> <<"EVALUATED", "CANCELLED">>
       [] s = "EVALUATED" -> <<"COMMITTED", "REJECTED", "PENDING_APPROVAL", "CANCELLED">>
       [] s = "PENDING_APPROVAL" -> <<"COMMITTED", "REJECTED", "CANCELLED">>
       [] s = "REJECTED" -> <<"EVALUATED">>
       [] OTHER -> << >>]

VALID_TRANSITIONS ==
  [s \in DecisionState |->
     CASE s = "PROPOSED" -> <<"EVALUATED", "CANCELLED">>
       [] s = "EVALUATED" -> <<"COMMITTED", "REJECTED", "PENDING_APPROVAL", "CANCELLED">>
       [] s = "PENDING_APPROVAL" -> <<"COMMITTED", "REJECTED", "CANCELLED">>
       [] s = "COMMITTED" -> << >>
       [] s = "REJECTED" -> << >>
       [] s = "CANCELLED" -> << >>]

\* Array.prototype.includes
includes(arr, x) == \E i \in DOMAIN arr : arr[i] = x

\* validateTransition: TRUE when it returns, FALSE when it throws
validateTransition(from, to) == includes(VALID_TRANSITIONS[from], to)

isTerminalState(state) == Len(VALID_TRANSITIONS[state]) = 0

\* canCommit(decision)
canCommit(decision) ==
  /\ decision.state = "EVALUATED"
  /\ ~ (IsSet(decision.verdict) /\ decision.verdict[1].result = "DENY")

(***************************************************************************)
(* Errors and call results                                                 *)
(***************************************************************************)
NoError == [kind |-> "none", from |-> "", targets |-> << >>]
NotFoundError == [kind |-> "NotFound", from |-> "", targets |-> << >>]
\* `Invalid state transition: ${from} -> ${to}. Valid transitions: ...`
InvalidTransitionError(from) ==
  [kind |-> "InvalidTransition", from |-> from, targets |-> VALID_TRANSITIONS[from]]
\* `Decision ${decisionId} is not pending approval`
NotPendingError == [kind |-> "NotPendingApproval", from |-> "", targets |-> << >>]

(***************************************************************************)
(* State                                                                   *)
(***************************************************************************)
VARIABLES
  decisions,     \* DecisionStateMachine.decisions : Map<ContentAddress, Decision>
  transactions,  \* DecisionStateMachine.transactions : Map<ContentAddress, DecisionTransaction>
  calls,         \* commit() calls suspended at an await, with their local variables
  now,           \* reading of the clock
  last,          \* the call that settled or ran last, and how it ended
  evaluation,    \* the policy engine: the arguments of a call and what it produced
  requests,      \* ApprovalQueue.requests : Map<ContentAddress, ApprovalRequest>
  byDecision,    \* ApprovalQueue.byDecision : Map<ContentAddress, ContentAddress>
  byApprover,    \* ApprovalQueue.byApprover : Map<ContentAddress, Set<ContentAddress>>
  rules,         \* EscalationManager.rules : Map<ContentAddress, EscalationRule>, in insertion order
  paths,         \* EscalationManager.paths : Map<ContentAddress, EscalationPath>, in insertion order
  records,       \* EscalationManager.records : Map<ContentAddress, EscalationRecord>
  recordByDecision,  \* EscalationManager.byDecision : Map<ContentAddress, ContentAddress>
  denied,        \* history: the decisions evaluate() has rejected on a blocking verdict
  resolverPolicies,  \* ConflictResolver.policies : Map<ContentAddress, PolicyDefinition>, in insertion order
  resolverRules, \* ConflictResolver.rules : ResolutionRule[]
  conflicts,     \* ConflictResolver.conflicts : Map<ContentAddress, PolicyConflict>, in insertion order
  registered     \* history: the policies handed to registerPolicy()

vars ==
  <<decisions, transactions, calls, now, last, evaluation, requests, byDecision, byApprover,
    rules, paths, records, recordByDecision, denied,
    resolverPolicies, resolverRules, conflicts, registered>>

\* the state of each component
lifecycleVars == <<decisions, transactions, calls>>
engineVars == <<evaluation>>
queueVars == <<requests, byDecision, byApprover>>
managerVars == <<rules, paths, records, recordByDecision>>
historyVars == <<denied>>
resolverVars == <<resolverPolicies, resolverRules, conflicts, registered>>

\* the policy engine before any call
NoEvaluation == [call |-> "none"]

\* Map.prototype.set
MapSet(m, k, v) == [x \in (DOMAIN m) \cup {k} |-> IF x = k THEN v ELSE m[x]]
\* Map.prototype.has
MapHas(m, k) == k \in DOMAIN m

\* the suspended calls form a bag: two calls with equal local variables
\* are two calls
Suspend(c) == calls (+) SetToBag({c})
Resume(c) == calls (-) SetToBag({c})
Suspended == BagToSet(calls)

\* an address under which nothing was ever stored
MissingId == computeContentAddress([fake |-> TRUE])
\* the decision ids a caller passes: those of the stored decisions and one
\* that is unknown
CallIds == (DOMAIN decisions) \cup {MissingId}

\* how a call ended: the method, the decision id it was given, whether it
\* returned (ok) or threw (error), the state it read from the store ("" when
\* it read none) and, when it returned, its second argument
Result(op, id, ok, error, read, arg) ==
  [op |-> op, id |-> id, ok |-> ok, error |-> error, read |-> read, arg |-> arg]

(***************************************************************************)
(* The conflict resolver: its resolution rules, registered by the          *)
(* constructor                                                             *)
(***************************************************************************)
\* ResolutionRule
ResolutionRule(id, conflictTypes, strategy, priority) ==
  [id |-> id, conflictTypes |-> conflictTypes, strategy |-> strategy, priority |-> priority]

\* `this.rules.push(rule); this.rules.sort((a, b) => b.priority - a.priority)`
\* on rules that are already in that order: the sort is stable, so the new
\* rule comes after the rules of its priority
rulesWith(sorted, rule) ==
  LET NotBelow(r) == r.priority >= rule.priority
      Below(r) == r.priority < rule.priority
  IN SelectSeq(sorted, NotBelow) \o <<rule>> \o SelectSeq(sorted, Below)

\* the rules after registerDefaultRules()
defaultRules ==
  rulesWith(
    rulesWith(
      rulesWith(
        rulesWith(<< >>, ResolutionRule("default-overlap", <<"OVERLAP">>, "MOST_SPECIFIC", 100)),
        ResolutionRule("default-contradiction", <<"CONTRADICTION">>, "MOST_RESTRICTIVE", 100)),
      ResolutionRule("default-ambiguous", <<"AMBIGUOUS_PRIORITY">>, "NEWEST", 50)),
    ResolutionRule("default-circular", <<"CIRCULAR">>, "ESCALATE", 100))

Init ==
  /\ decisions = << >>
  /\ transactions = << >>
  /\ calls = EmptyBag
  /\ now = 0
  /\ last = Result("none", Undefined, TRUE, NoError, "", Undefined)
  /\ evaluation = NoEvaluation
  /\ requests = << >>
  /\ byDecision = << >>
  /\ byApprover = << >>
  /\ rules = << >>
  /\ paths = << >>
  /\ records = << >>
  /\ recordByDecision = << >>
  /\ denied = {}
  /\ resolverPolicies = << >>
  /\ resolverRules = defaultRules
  /\ conflicts = << >>
  /\ registered = {}

(***************************************************************************)
(* The clock                                                               *)
(***************************************************************************)
Tick ==
  /\ now < MaxClock
  /\ now' = now + 1
  /\ last' = Result("tick", Undefined, TRUE, NoError, "", Undefined)
  /\ UNCHANGED <<decisions, transactions, calls>>

(***************************************************************************)
(* propose                                                                 *)
(***************************************************************************)
\* the Decision built by propose()
proposedDecision(input, proposedAt) ==
  [id |-> computeContentAddress(decisionData(input, proposedAt)),
   state |-> "PROPOSED",
   action |-> input.action,
   proposedBy |-> input.proposedBy,
   rationale |-> input.rationale,
   verdict |-> Undefined,
   proposedAt |-> proposedAt,
   evaluatedAt |-> Undefined,
   concludedAt |-> Undefined,
   approval |-> Undefined]

Propose(input) ==
  LET decision == proposedDecision(input, now) IN
  /\ Cardinality((DOMAIN decisions) \cup {decision.id}) <= MaxDecisions
  /\ decisions' = MapSet(decisions, decision.id, decision)
  /\ last' = Result("propose", Some(decision.id), TRUE, NoError, "", Undefined)
  /\ UNCHANGED <<transactions, calls, now>>

\* a call that throws before it changed anything
Fail(op, id, error) ==
  /\ last' = Result(op, Some(id), FALSE, error, "", Undefined)
  /\ UNCHANGED <<decisions, transactions, calls, now>>

(***************************************************************************)
(* evaluate                                                                *)
(***************************************************************************)
\* variant: the DENY case missing from the switch
nextStateFor_NoDenyCase(result) ==
  CASE result \in {"ALLOW", "ANNOTATE"} -> "EVALUATED"
    [] result = "ESCALATE" -> "PENDING_APPROVAL"
    [] OTHER -> "EVALUATED"

\* the switch on verdict.result
nextStateFor(result) ==
  CASE result \in {"ALLOW", "ANNOTATE"} -> "EVALUATED"
    [] result = "DENY" -> "REJECTED"
    [] result = "ESCALATE" -> "PENDING_APPROVAL"
    [] OTHER -> "EVALUATED"

\* variant: evaluate() stamps concludedAt whatever the next state is
evaluatedDecision_AlwaysConcluded(decision, verdict, evaluatedAt) ==
  [decision EXCEPT !.state = nextStateFor(verdict.result),
                   !.verdict = Some(verdict),
                   !.evaluatedAt = Some(evaluatedAt),
                   !.concludedAt = Some(evaluatedAt)]

evaluatedDecision(decision, verdict, evaluatedAt) ==
  LET nextState == nextStateFor(verdict.result) IN
  [decision EXCEPT !.state = nextState,
                   !.verdict = Some(verdict),
                   !.evaluatedAt = Some(evaluatedAt),
                   !.concludedAt = IF nextState = "REJECTED" THEN Some(evaluatedAt) ELSE @]

Evaluate(id, verdict) ==
  /\ id \in CallIds
  /\ IF ~ MapHas(decisions, id) THEN Fail("evaluate", id, NotFoundError)
     ELSE LET decision == decisions[id] IN
       IF ~ validateTransition(decision.state, "EVALUATED")
       THEN Fail("evaluate", id, InvalidTransitionError(decision.state))
       ELSE /\ decisions' = MapSet(decisions, id, evaluatedDecision(decision, verdict, now))
            /\ last' = Result("evaluate", Some(id), TRUE, NoError, decision.state, Some(verdict))
            /\ UNCHANGED <<transactions, calls, now>>

(***************************************************************************)
(* commit                                                                  *)
(***************************************************************************)
TransactionNotFoundError == [kind |-> "TransactionNotFound", from |-> "", targets |-> << >>]

\* the DecisionTransaction built by startTransaction()
startedTransaction(decisionId, operation, startedAt) ==
  [id |-> computeContentAddress([decisionId |-> decisionId, operation |-> operation,
                                 startedAt |-> startedAt]),
   decisionId |-> decisionId,
   operation |-> operation,
   status |-> "pending",
   startedAt |-> startedAt,
   completedAt |-> Undefined,
   error |-> Undefined]

\* variant: startTransaction() does not store the transaction
storeTransaction_Dropped(txns, txn) == txns

\* `this.transactions.set(id, txn)` of startTransaction()
storeTransaction(txns, txn) == MapSet(txns, txn.id, txn)

\* the record written by completeTransaction()
completedTransaction(txn, completedAt) ==
  [txn EXCEPT !.status = "completed", !.completedAt = Some(completedAt)]

\* the record written by rollbackTransaction()
rolledBackTransaction(txn, completedAt, error) ==
  [txn EXCEPT !.status = "rolled_back", !.completedAt = Some(completedAt),
              !.error = Some(error)]

\* the Decision written by commit()
committedDecision(decision, concludedAt) ==
  [decision EXCEPT !.state = "COMMITTED", !.concludedAt = Some(concludedAt)]

\* local variables of a commit() call suspended at `await <awaiting>(...)`;
\* rejected tells whether the awaited promise is rejected
SuspendedCommit(awaiting, rejected, decisionId, decision, txnId) ==
  [awaiting |-> awaiting, rejected |-> rejected, decisionId |-> decisionId,
   decision |-> decision, txnId |-> txnId]

\* commit(), from its call to its first await
CommitStart(id) ==
  /\ id \in CallIds
  /\ IF ~ MapHas(decisions, id) THEN Fail("commit", id, NotFoundError)
     ELSE LET decision == decisions[id] IN
       IF ~ validateTransition(decision.state, "COMMITTED")
       THEN Fail("commit", id, InvalidTransitionError(decision.state))
       ELSE LET txn == startedTransaction(id, "commit", now) IN
            /\ BagCardinality(calls) < MaxInFlight
            /\ transactions' = storeTransaction(transactions, txn)
            /\ calls' = Suspend(SuspendedCommit("startTransaction", FALSE, id, decision, txn.id))
            /\ last' = Result("commit.start", Some(id), TRUE, NoError, decision.state, Undefined)
            /\ UNCHANGED <<decisions, now>>

\* commit(), from the await of startTransaction to the await of completeTransaction
CommitWrite(c) ==
  /\ c \in Suspended
  /\ /\ c.awaiting = "startTransaction"
     /\ decisions' = MapSet(decisions, c.decisionId, committedDecision(c.decision, now))
     /\ IF MapHas(transactions, c.txnId)
        THEN /\ transactions' = MapSet(transactions, c.txnId,
                                       completedTransaction(transactions[c.txnId], now))
             /\ calls' = Resume(c) (+) SetToBag({[c EXCEPT !.awaiting = "completeTransaction"]})
        ELSE /\ transactions' = transactions
             /\ calls' = Resume(c) (+) SetToBag({[c EXCEPT !.awaiting = "completeTransaction",
                                                            !.rejected = TRUE]})
     /\ last' = Result("commit.write", Some(c.decisionId), TRUE, NoError, c.decision.state, Undefined)
     /\ now' = now

\* commit(), from the await of completeTransaction on: it returns, or it enters
\* the catch block, awaits rollbackTransaction and rethrows
CommitSettle(c) ==
  /\ c \in Suspended
  /\ /\ c.awaiting \in {"completeTransaction", "rollbackTransaction"}
     /\ IF c.awaiting = "completeTransaction" /\ ~ c.rejected
        THEN /\ calls' = Resume(c)
             /\ last' = Result("commit", Some(c.decisionId), TRUE, NoError, c.decision.state, Undefined)
             /\ transactions' = transactions
        ELSE IF c.awaiting = "completeTransaction"
        THEN /\ IF MapHas(transactions, c.txnId)
                THEN transactions' = MapSet(transactions, c.txnId,
                        rolledBackTransaction(transactions[c.txnId], now, "Transaction not found"))
                ELSE transactions' = transactions
             /\ calls' = Resume(c) (+) SetToBag({[c EXCEPT !.awaiting = "rollbackTransaction"]})
             /\ last' = Result("commit.rollback", Some(c.decisionId), TRUE, NoError,
                               c.decision.state, Undefined)
        ELSE /\ calls' = Resume(c)
             /\ last' = Result("commit", Some(c.decisionId), FALSE, TransactionNotFoundError,
                               c.decision.state, Undefined)
             /\ transactions' = transactions
     /\ UNCHANGED <<decisions, now>>

(***************************************************************************)
(* reject, approve, cancel                                                 *)
(***************************************************************************)
\* `reason ?? decision.rationale`
newRationale(reason, rationale) == IF IsSet(reason) THEN reason ELSE rationale

rejectedDecision(decision, reason, concludedAt) ==
  [decision EXCEPT !.state = "REJECTED", !.concludedAt = Some(concludedAt),
                   !.rationale = newRationale(reason, @)]

Reject(id, reason) ==
  /\ id \in CallIds
  /\ IF ~ MapHas(decisions, id) THEN Fail("reject", id, NotFoundError)
     ELSE LET decision == decisions[id] IN
       IF ~ validateTransition(decision.state, "REJECTED")
       THEN Fail("reject", id, InvalidTransitionError(decision.state))
       ELSE /\ decisions' = MapSet(decisions, id, rejectedDecision(decision, reason, now))
            /\ last' = Result("reject", Some(id), TRUE, NoError, decision.state, reason)
            /\ UNCHANGED <<transactions, calls, now>>

\* the DecisionApproval recorded by approve()
approvalBy(approvedBy, justification, decidedAt) ==
  [decidedBy |-> approvedBy, decision |-> "approved", justification |-> justification,
   decidedAt |-> decidedAt]

approvedDecision(decision, approval) ==
  [decision EXCEPT !.state = "EVALUATED", !.approval = Some(approval)]

\* variant: approve() also accepts a decision that is already EVALUATED
isPendingApproval_OrEvaluated(decision) ==
  decision.state \in {"PENDING_APPROVAL", "EVALUATED"}

\* the state test of approve()
isPendingApproval(decision) == decision.state = "PENDING_APPROVAL"

Approve(id, approvedBy, justification) ==
  /\ id \in CallIds
  /\ IF ~ MapHas(decisions, id) THEN Fail("approve", id, NotFoundError)
     ELSE LET decision == decisions[id] IN
       IF ~ isPendingApproval(decision)
       THEN Fail("approve", id, NotPendingError)
       ELSE /\ decisions' = MapSet(decisions, id,
                               approvedDecision(decision, approvalBy(approvedBy, justification, now)))
            /\ last' = Result("approve", Some(id), TRUE, NoError, decision.state, Some(approvedBy))
            /\ UNCHANGED <<transactions, calls, now>>

cancelledDecision(decision, reason, concludedAt) ==
  [decision EXCEPT !.state = "CANCELLED", !.concludedAt = Some(concludedAt),
                   !.rationale = newRationale(reason, @)]

Cancel(id, reason) ==
  /\ id \in CallIds
  /\ IF ~ MapHas(decisions, id) THEN Fail("cancel", id, NotFoundError)
     ELSE LET decision == decisions[id] IN
       IF ~ validateTransition(decision.state, "CANCELLED")
       THEN Fail("cancel", id, InvalidTransitionError(decision.state))
       ELSE /\ decisions' = MapSet(decisions, id, cancelledDecision(decision, reason, now))
            /\ last' = Result("cancel", Some(id), TRUE, NoError, decision.state, reason)
            /\ UNCHANGED <<transactions, calls, now>>

(***************************************************************************)
(* Specification                                                           *)
(***************************************************************************)
\* the DecisionVerdicts handed to evaluate(): the decision they were computed
\* for and their result.  The policy engine computes a verdict for the decision
\* it is handed, so the verdicts drawn here name the decision evaluated.
VerdictsFor(id) == [decisionId : {id}, result : VerdictResults]

\* every address a caller can pass (each action keeps those of CallIds)
AllIds == DecisionIds \cup {MissingId}

\* the decision state machine alone: the policy engine and the approval queue
\* are not called
Next ==
  \/ Tick /\ UNCHANGED <<engineVars, queueVars, managerVars, historyVars, resolverVars>>
  \/ \E input \in ProposeInputs : Propose(input) /\ UNCHANGED <<engineVars, queueVars, managerVars, historyVars, resolverVars>>
  \/ \E id \in AllIds : \E verdict \in VerdictsFor(id) :
       Evaluate(id, verdict) /\ UNCHANGED <<engineVars, queueVars, managerVars, historyVars, resolverVars>>
  \/ \E id \in AllIds : CommitStart(id) /\ UNCHANGED <<engineVars, queueVars, managerVars, historyVars, resolverVars>>
  \/ \E c \in Suspended : CommitWrite(c) /\ UNCHANGED <<engineVars, queueVars, managerVars, historyVars, resolverVars>>
  \/ \E c \in Suspended : CommitSettle(c) /\ UNCHANGED <<engineVars, queueVars, managerVars, historyVars, resolverVars>>
  \/ \E id \in AllIds, reason \in Reasons :
       Reject(id, reason) /\ UNCHANGED <<engineVars, queueVars, managerVars, historyVars, resolverVars>>
  \/ \E id \in AllIds, approvedBy \in Actors, justification \in Justifications :
       Approve(id, approvedBy, justification) /\ UNCHANGED <<engineVars, queueVars, managerVars, historyVars, resolverVars>>
  \/ \E id \in AllIds, reason \in Reasons :
       Cancel(id, reason) /\ UNCHANGED <<engineVars, queueVars, managerVars, historyVars, resolverVars>>

Spec == Init /\ [][Next]_vars

TypeOK ==
  /\ DOMAIN decisions \subseteq DecisionIds
  /\ \A id \in DOMAIN decisions : decisions[id].state \in DecisionState /\ decisions[id].id = id
  /\ now \in Clock

(***************************************************************************)
(* Vocabulary of the properties                                            *)
(***************************************************************************)
Stored(id) == id \in DOMAIN decisions
StoredAfter(id) == id \in DOMAIN decisions'
TerminalStates == {"COMMITTED", "REJECTED", "CANCELLED"}

\* r is the result of a call that was issued in the step that produced it
\* (evaluate, reject, approve and cancel run in one step; a commit that passed
\* its validation is suspended, one that did not has thrown)
Issued(r) ==
  \/ r.op \in {"evaluate", "reject", "approve", "cancel", "commit.start"}
  \/ r.op = "commit" /\ ~ r.ok /\ r.error.kind \in {"NotFound", "InvalidTransition"}

\* r is the result of a call that threw
Threw(r) == r.op \in {"evaluate", "commit", "reject", "approve", "cancel"} /\ ~ r.ok

\* r is the result of a step in which a call wrote a decision to the store
Wrote(r) == r.ok /\ r.op \in {"evaluate", "commit.write", "reject", "approve", "cancel"}

HasVerdict(d, result) == IsSet(d.verdict) /\ d.verdict[1].result = result

(***************************************************************************)
(* Decision lifecycle: properties                                          *)
(***************************************************************************)

\* C1: a decision enters COMMITTED only through a commit() that was issued
\* while its state was EVALUATED and its verdict's result was not DENY, and a
\* commit() issued in any other state fails.
C1_CommitOnlyFromEvaluated ==
  [][ /\ \A id \in DOMAIN decisions' :
           ( /\ decisions'[id].state = "COMMITTED"
             /\ ~ (Stored(id) /\ decisions[id].state = "COMMITTED") )
           => /\ last'.op = "commit.write"
              /\ last'.id = Some(id)
              /\ last'.read = "EVALUATED"
              /\ ~ HasVerdict(decisions'[id], "DENY")
      /\ last'.op = "commit.start" => canCommit(decisions[last'.id[1]])
    ]_vars

\* C2: once a decision is COMMITTED, REJECTED or CANCELLED, every evaluate,
\* commit, reject, approve or cancel issued on it fails with the invalid
\* transition error naming that state and its (empty) list of targets, and
\* the stored state never changes again.
C2_TerminalIsFinal ==
  [][ \A id \in DOMAIN decisions :
        decisions[id].state \in TerminalStates
        => /\ StoredAfter(id)
           /\ decisions'[id].state = decisions[id].state
           /\ (Issued(last') /\ last'.id = Some(id))
              => /\ ~ last'.ok
                 /\ last'.error = InvalidTransitionError(decisions[id].state)
    ]_vars

\* C3: a COMMITTED decision has a verdict attached and evaluatedAt set.
C3_CommittedHasVerdict ==
  \A id \in DOMAIN decisions :
    decisions[id].state = "COMMITTED"
    => IsSet(decisions[id].verdict) /\ IsSet(decisions[id].evaluatedAt)

\* a commit() has returned and left its decision COMMITTED in the store
C3_Witness ==
  /\ last.op = "commit" /\ last.ok
  /\ Stored(last.id[1])
  /\ decisions[last.id[1]].state = "COMMITTED"
  /\ IsSet(decisions[last.id[1]].verdict)

\* C4: a COMMITTED decision whose verdict is ESCALATE carries an approval
\* with decision 'approved'.
C4_EscalatedCommitIsApproved ==
  \A id \in DOMAIN decisions :
    (decisions[id].state = "COMMITTED" /\ HasVerdict(decisions[id], "ESCALATE"))
    => /\ IsSet(decisions[id].approval)
       /\ decisions[id].approval[1].decision = "approved"

\* C5: a call of evaluate, commit, reject, approve or cancel that throws
\* leaves every stored decision as it was: it throws in the step in which it
\* was issued, before it has written anything, and that step leaves the
\* store unchanged.
C5_FailedCallChangesNothing ==
  [][ Threw(last') => Issued(last') /\ decisions' = decisions ]_vars

\* a call on a stored decision has thrown
C5_Witness ==
  /\ Threw(last)
  /\ Stored(last.id[1])
  /\ last.error.kind \in {"InvalidTransition", "NotPendingApproval"}

\* C6: a decision stored as CANCELLED or REJECTED is never afterwards
\* overwritten as COMMITTED by a commit() that validated it earlier.
C6_NoStaleCommit ==
  [][ \A id \in DOMAIN decisions :
        decisions[id].state \in {"CANCELLED", "REJECTED"}
        => ~ (StoredAfter(id) /\ decisions'[id].state = "COMMITTED")
    ]_vars

ExtendedEdge(from, to) ==
  \/ from = "PROPOSED" /\ to \in {"EVALUATED", "CANCELLED", "REJECTED", "PENDING_APPROVAL"}
  \/ from = "EVALUATED" /\ to \in {"COMMITTED", "REJECTED", "PENDING_APPROVAL", "CANCELLED"}
  \/ from = "PENDING_APPROVAL" /\ to \in {"COMMITTED", "REJECTED", "CANCELLED", "EVALUATED"}

C8_EvaluateFollowsVerdict ==
  [][ \A id \in DOMAIN decisions :
        (last'.op = "evaluate" /\ last'.id = Some(id) /\ decisions[id].state = "PROPOSED")
        => /\ last'.ok
           /\ decisions'[id].verdict = last'.arg
           /\ decisions'[id].evaluatedAt = Some(now)
           /\ last'.arg[1].result \in {"ALLOW", "ANNOTATE"}
              => decisions'[id].state = "EVALUATED" /\ decisions'[id].concludedAt = Undefined
           /\ last'.arg[1].result = "DENY"
              => decisions'[id].state = "REJECTED" /\ decisions'[id].concludedAt = Some(now)
           /\ last'.arg[1].result = "ESCALATE"
              => decisions'[id].state = "PENDING_APPROVAL"
                 /\ decisions'[id].concludedAt = Undefined
    ]_vars

\* evaluate() with a DENY verdict has just rejected a decision
C8_Witness ==
  /\ last.op = "evaluate" /\ last.ok /\ last.read = "PROPOSED"
  /\ last.arg[1].result = "DENY"
  /\ decisions[last.id[1]].state = "REJECTED"

\* C9: evaluate() returns only on a PROPOSED decision; once a decision has a
\* verdict, every evaluate() issued on it throws and no step changes the
\* verdict.
C9_VerdictAttachedOnce ==
  [][ /\ (last'.op = "evaluate" /\ last'.ok) => decisions[last'.id[1]].state = "PROPOSED"
      /\ \A id \in DOMAIN decisions :
           IsSet(decisions[id].verdict)
           => /\ StoredAfter(id)
              /\ decisions'[id].verdict = decisions[id].verdict
              /\ (last'.op = "evaluate" /\ last'.id = Some(id)) => ~ last'.ok
    ]_vars

\* C10: approve(id, approver) returns exactly when the decision is in
\* PENDING_APPROVAL; it then records the approval of that approver, stores
\* EVALUATED without concludedAt, and a commit() issued next on the decision
\* is accepted and returns.
C10_ApproveThenCommit ==
  [][ /\ last'.op = "approve"
         => /\ last'.ok <=> ( /\ Stored(last'.id[1])
                              /\ decisions[last'.id[1]].state = "PENDING_APPROVAL" )
            /\ last'.ok
               => /\ IsSet(decisions'[last'.id[1]].approval)
                  /\ decisions'[last'.id[1]].approval[1].decidedBy = last'.arg[1]
                  /\ decisions'[last'.id[1]].approval[1].decision = "approved"
                  /\ decisions'[last'.id[1]].approval[1].decidedAt = now
                  /\ decisions'[last'.id[1]].state = "EVALUATED"
                  /\ decisions'[last'.id[1]].concludedAt = Undefined
      /\ ( /\ last.op = "approve" /\ last.ok
           /\ last'.op \in {"commit", "commit.start"} /\ Issued(last')
           /\ last'.id = last.id )
         => last'.ok
      /\ (last'.op = "commit" /\ ~ Issued(last')) => last'.ok
    ]_vars

\* a commit() issued after approve() has returned
C10_Witness ==
  /\ last.op = "commit" /\ last.ok
  /\ decisions[last.id[1]].state = "COMMITTED"
  /\ IsSet(decisions[last.id[1]].approval)
  /\ decisions[last.id[1]].approval[1].decidedBy = "bob"

(***************************************************************************)
(* Part 2: the policy engine                                               *)
(***************************************************************************)
\* longest list of policies handed to evaluateAll
MaxPolicies == 2
\* latest instant of a policy's activation window and of a context
MaxTime == 2

\* EnforcementMode, PolicyStatus (DRAFT stands for every status but ACTIVE)
EnforcementMode == {"BLOCK", "ANNOTATE", "ESCALATE", "SHADOW"}
PolicyStatus == {"ACTIVE", "DRAFT"}

\* a Timestamp is an ISO string; `new Date(ts).getTime()` reads it as a number
\* of milliseconds, which is what the model keeps
Timestamps == 0..MaxTime

\* ActivationWindow: the windows [1, oo) and [1, MaxTime)
ActivationWindows == [activatesAt : {1}, expiresAt : {Undefined, Some(MaxTime)}]

\* PolicyRule: a comparison in the expression format, two scripts that throw
\* and a rule in a format for which no evaluator is registered
AmountBelowLimit == [format |-> "expression", expression |-> "extra.amount < 1000"]
ThrowsTypeError == [format |-> "javascript", expression |-> "undefined.foo.bar"]
ThrowsBareObject ==
  [format |-> "javascript", expression |-> "(() => { throw Object.create(null) })()"]
UnregisteredFormat == [format |-> "rego", expression |-> "allow"]
Rules == {AmountBelowLimit, ThrowsTypeError, ThrowsBareObject, UnregisteredFormat}

\* PolicyDefinition
PolicyDefinitions ==
  [name : {"limit"}, enforcement : EnforcementMode, status : PolicyStatus,
   activation : ActivationWindows, rule : Rules]

PolicyLists == UNION { [1..n -> PolicyDefinitions] : n \in 0..MaxPolicies }

\* PolicyEvaluationContext
Amounts == {500, 5000}
ContextsFor(decisionId) ==
  [decision : [id : {decisionId}, type : ActionTypes], timestamp : Timestamps,
   extra : [amount : Amounts]]

\* how a call ends: it returns a value or it throws one
Returns(value) == [threw |-> FALSE, value |-> value]
Throws(value) == [threw |-> TRUE, value |-> value]

\* the values a rule evaluator throws: an Error with its message, or an object
\* without a prototype, which is not an Error and has no string conversion
ErrorObject(message) == [isError |-> TRUE, message |-> message]
BareObject == [isError |-> FALSE, message |-> ""]
TypeErrorOfString == ErrorObject("Cannot convert object to primitive value")

\* variant: a policy is still active at the instant it expires
isPolicyActive_ExpiryInclusive(policy, asOf) ==
  IF policy.status # "ACTIVE" THEN FALSE
  ELSE IF asOf < policy.activation.activatesAt THEN FALSE
  ELSE IF IsSet(policy.activation.expiresAt) /\ asOf > policy.activation.expiresAt[1] THEN FALSE
  ELSE TRUE

isPolicyActive(policy, asOf) ==
  IF policy.status # "ACTIVE" THEN FALSE
  ELSE IF asOf < policy.activation.activatesAt THEN FALSE
  ELSE IF IsSet(policy.activation.expiresAt) /\ asOf >= policy.activation.expiresAt[1] THEN FALSE
  ELSE TRUE

\* the formats createRuleEvaluatorRegistry() registers an evaluator for
RegisteredFormats == {"expression", "javascript"}

\* createExpressionEvaluator on the comparison `extra.amount < 1000`
expressionEvaluator(expression, context) == Returns(context.extra.amount < 1000)

\* createJavaScriptEvaluator: the script runs and throws
javaScriptEvaluator(expression, context) ==
  IF expression = ThrowsTypeError.expression
  THEN Throws(ErrorObject("Cannot read properties of undefined"))
  ELSE Throws(BareObject)

\* registry.evaluate(format, expression, context)
registryEvaluate(format, expression, context) ==
  IF format \notin RegisteredFormats
  THEN Throws(ErrorObject("No evaluator registered for format"))
  ELSE IF format = "expression" THEN expressionEvaluator(expression, context)
  ELSE javaScriptEvaluator(expression, context)

\* `error instanceof Error ? error.message : String(error)`
errorMessageOf(error) ==
  IF error.isError THEN Returns(error.message) ELSE Throws(TypeErrorOfString)

\* PolicyVerdictResult
PolicyVerdictResult(passed, enforcement, explanation, annotations, error) ==
  [passed |-> passed, enforcement |-> enforcement, explanation |-> explanation,
   annotations |-> annotations, error |-> error]

\* evaluatePolicy(policy, context): what it returns or throws, and whether it
\* invoked the rule evaluator
evaluatePolicy(policy, context) ==
  IF ~ isPolicyActive(policy, context.timestamp)
  THEN [invoked |-> FALSE,
        settled |-> Returns(PolicyVerdictResult(TRUE, policy.enforcement,
                      "Policy not active at evaluation time", << >>, Undefined))]
  ELSE LET passed == registryEvaluate(policy.rule.format, policy.rule.expression, context) IN
    [invoked |-> TRUE,
     settled |->
       IF ~ passed.threw
       THEN IF passed.value
            THEN Returns(PolicyVerdictResult(TRUE, policy.enforcement, "Policy passed",
                                             << >>, Undefined))
            ELSE Returns(PolicyVerdictResult(FALSE, policy.enforcement, "Policy violated",
                                             << <<"POLICY_VIOLATION", policy.name>> >>, Undefined))
       ELSE LET errorMessage == errorMessageOf(passed.value) IN
            IF errorMessage.threw THEN Throws(errorMessage.value)
            ELSE Returns(PolicyVerdictResult(FALSE, "BLOCK",
                           <<"Error evaluating policy", errorMessage.value>>,
                           << <<"POLICY_ERROR", policy.name>> >>, Some(errorMessage.value)))]

\* the concatenation of a sequence of sequences
RECURSIVE Flatten(_)
Flatten(seqs) == IF seqs = << >> THEN << >> ELSE Head(seqs) \o Flatten(Tail(seqs))

\* PolicyVerdictEntry
PolicyVerdictEntry(policy, verdict) ==
  [policyId |-> computeContentAddress(policy), policyName |-> policy.name, verdict |-> verdict]

blocks(pr) == ~ pr.verdict.passed /\ pr.verdict.enforcement = "BLOCK"
escalates(pr) == ~ pr.verdict.passed /\ pr.verdict.enforcement = "ESCALATE"
policyIdOf(pr) == pr.policyId
annotationsOf(pr) == pr.verdict.annotations
\* the policyId pushed for each entry of results
policyIdsOf(results) == [i \in DOMAIN results |-> policyIdOf(results[i])]
\* the annotations pushed for each entry of results
annotationListsOf(results) == [i \in DOMAIN results |-> annotationsOf(results[i])]

\* variant: the escalating policies are looked at before the blocking ones
aggregate_EscalateFirst(blockingPolicies, escalatingPolicies, allAnnotations) ==
  IF Len(escalatingPolicies) > 0 THEN "ESCALATE"
  ELSE IF Len(blockingPolicies) > 0 THEN "DENY"
  ELSE IF Len(allAnnotations) > 0 THEN "ANNOTATE"
  ELSE "ALLOW"

\* "Determine overall result"
aggregate(blockingPolicies, escalatingPolicies, allAnnotations) ==
  IF Len(blockingPolicies) > 0 THEN "DENY"
  ELSE IF Len(escalatingPolicies) > 0 THEN "ESCALATE"
  ELSE IF Len(allAnnotations) > 0 THEN "ANNOTATE"
  ELSE "ALLOW"

\* PolicyViolation
violationOf(pr) ==
  [policyId |-> pr.policyId, message |-> pr.verdict.explanation,
   severity |-> IF pr.verdict.enforcement = "BLOCK" THEN "critical" ELSE "warning"]
failed(pr) == ~ pr.verdict.passed
\* the PolicyViolation of every entry of results
violationsOf(results) == [i \in DOMAIN results |-> violationOf(results[i])]

\* evaluateAll(policies, context) at clock reading evaluatedAt: the loop stops at
\* the first evaluatePolicy that throws, and evaluateAll throws what it threw
evaluateAll(policies, context, evaluatedAt) ==
  LET verdicts == [i \in DOMAIN policies |-> evaluatePolicy(policies[i], context).settled]
      throwing == { i \in DOMAIN policies : verdicts[i].threw }
  IN IF throwing # {}
     THEN Throws(verdicts[CHOOSE i \in throwing : \A j \in throwing : i <= j].value)
     ELSE LET policyResults ==
                [i \in DOMAIN policies |-> PolicyVerdictEntry(policies[i], verdicts[i].value)]
              blockingPolicies == policyIdsOf(SelectSeq(policyResults, blocks))
              escalatingPolicies == policyIdsOf(SelectSeq(policyResults, escalates))
              allAnnotations == Flatten(annotationListsOf(policyResults))
              verdictData ==
                [decisionId |-> context.decision.id,
                 result |-> aggregate(blockingPolicies, escalatingPolicies, allAnnotations),
                 scope |-> context.decision.type,
                 policyResults |-> policyResults,
                 blockingPolicies |-> blockingPolicies,
                 escalatingPolicies |-> escalatingPolicies,
                 annotations |-> allAnnotations,
                 violations |-> violationsOf(SelectSeq(policyResults, failed)),
                 evaluatedAt |-> evaluatedAt]
          IN Returns([id |-> computeContentAddress(verdictData)] @@ verdictData)

(***************************************************************************)
(* The enforcer                                                            *)
(***************************************************************************)
\* EnforcementConfig.escalationTimeoutHours: the default, and none
EscalationTimeoutHours == {24, 0}
MsPerHour == 3600000

policyNameOf(pr) == pr.policyName
\* `.map((pr) => pr.policyName)`
policyNamesOf(results) == [i \in DOMAIN results |-> policyNameOf(results[i])]

\* createEscalationRequest(verdict, timestamp)
createEscalationRequest(verdict, timestamp, escalationTimeoutHours) ==
  [id |-> <<"escalation", verdict.decisionId, timestamp>>,
   decisionId |-> verdict.decisionId,
   triggeringPolicies |-> verdict.escalatingPolicies,
   status |-> "pending",
   createdAt |-> timestamp,
   deadline |-> IF escalationTimeoutHours # 0
                THEN Some(timestamp + escalationTimeoutHours * MsPerHour) ELSE Undefined]

\* EnforcementAction
EnforcementAction(type, canProceed, reason, requiredSteps, annotations, timestamp) ==
  [type |-> type, canProceed |-> canProceed, reason |-> reason,
   requiredSteps |-> requiredSteps, annotations |-> annotations, timestamp |-> timestamp]

handleBlock(verdict, timestamp) ==
  LET isBlocking(pr) == includes(verdict.blockingPolicies, pr.policyId) IN
  EnforcementAction("BLOCK", FALSE,
    <<"Blocked by policies", policyNamesOf(SelectSeq(verdict.policyResults, isBlocking))>>,
    Undefined, verdict.annotations, timestamp)

handleAnnotate(verdict, timestamp) ==
  EnforcementAction("ANNOTATE", TRUE, "Decision allowed with annotations",
                    Undefined, verdict.annotations, timestamp)

\* variant: an escalated decision may proceed
canProceedEscalated_Yes == TRUE

\* canProceed of the action built by handleEscalate
canProceedEscalated == FALSE

handleEscalate(verdict, timestamp, escalationTimeoutHours) ==
  LET escalationRequest == createEscalationRequest(verdict, timestamp, escalationTimeoutHours)
      isEscalating(pr) == includes(verdict.escalatingPolicies, pr.policyId)
  IN EnforcementAction("ESCALATE", canProceedEscalated,
       <<"Requires approval due to",
         policyNamesOf(SelectSeq(verdict.policyResults, isEscalating))>>,
       Some(<< [type |-> "approval", description |-> verdict.decisionId,
                deadline |-> escalationRequest.deadline] >>),
       verdict.annotations \o << <<"ESCALATION", escalationRequest.id>> >>,
       timestamp)

handleAllow(verdict, timestamp) ==
  EnforcementAction("SHADOW", TRUE, "All policies passed", Undefined, << >>, timestamp)

\* enforce(verdict)
enforce(verdict, timestamp, escalationTimeoutHours) ==
  CASE verdict.result = "DENY" -> handleBlock(verdict, timestamp)
    [] verdict.result = "ANNOTATE" -> handleAnnotate(verdict, timestamp)
    [] verdict.result = "ESCALATE" -> handleEscalate(verdict, timestamp, escalationTimeoutHours)
    [] verdict.result = "ALLOW" -> handleAllow(verdict, timestamp)
    [] OTHER -> handleBlock(verdict, timestamp)

(***************************************************************************)
(* The policy engine: specification                                        *)
(***************************************************************************)
\* the decision the contexts of the engine are built for
ContextDecisionId ==
  computeContentAddress(decisionData([action |-> "transfer", proposedBy |-> "alice",
                                      rationale |-> Some("because")], 0))

\* the engine with the arguments of its calls, before any call
Arguments(policies, context) ==
  [call |-> "none", policies |-> policies, context |-> context, index |-> 0,
   invoked |-> FALSE, settled |-> Returns(Undefined), action |-> Undefined]

PolicyInit ==
  /\ decisions = << >>
  /\ transactions = << >>
  /\ calls = EmptyBag
  /\ now = 0
  /\ last = Result("none", Undefined, TRUE, NoError, "", Undefined)
  /\ evaluation \in { Arguments(policies, context) :
                        policies \in PolicyLists, context \in ContextsFor(ContextDecisionId) }
  /\ requests = << >>
  /\ byDecision = << >>
  /\ byApprover = << >>
  /\ rules = << >>
  /\ paths = << >>
  /\ records = << >>
  /\ recordByDecision = << >>
  /\ denied = {}
  /\ resolverPolicies = << >>
  /\ resolverRules = defaultRules
  /\ conflicts = << >>
  /\ registered = {}

\* evaluatePolicy(policies[i], context)
EvaluatePolicy(i) ==
  /\ i \in DOMAIN evaluation.policies
  /\ LET result == evaluatePolicy(evaluation.policies[i], evaluation.context) IN
     evaluation' = [evaluation EXCEPT !.call = "evaluatePolicy", !.index = i,
                                      !.invoked = result.invoked, !.settled = result.settled,
                                      !.action = Undefined]
  /\ UNCHANGED <<lifecycleVars, now, last, queueVars, managerVars, historyVars, resolverVars>>

\* evaluateAll(policies, context)
EvaluateAll ==
  /\ evaluation' = [evaluation EXCEPT !.call = "evaluateAll", !.index = 0, !.invoked = FALSE,
                      !.settled = evaluateAll(evaluation.policies, evaluation.context, now),
                      !.action = Undefined]
  /\ UNCHANGED <<lifecycleVars, now, last, queueVars, managerVars, historyVars, resolverVars>>

\* enforce(verdict) on the verdict evaluateAll returned
Enforce(escalationTimeoutHours) ==
  /\ evaluation.call \in {"evaluateAll", "enforce"}
  /\ ~ evaluation.settled.threw
  /\ evaluation' = [evaluation EXCEPT !.call = "enforce",
                      !.action = Some(enforce(evaluation.settled.value, now,
                                              escalationTimeoutHours))]
  /\ UNCHANGED <<lifecycleVars, now, last, queueVars, managerVars, historyVars, resolverVars>>

PolicyNext ==
  \/ \E i \in 1..MaxPolicies : EvaluatePolicy(i)
  \/ EvaluateAll
  \/ \E escalationTimeoutHours \in EscalationTimeoutHours : Enforce(escalationTimeoutHours)

PolicySpec == PolicyInit /\ [][PolicyNext]_vars

(***************************************************************************)
(* The policy engine: properties                                           *)
(***************************************************************************)
\* what evaluatePolicy does with the i-th policy of the list under evaluation
PolicyOutcome(i) == evaluatePolicy(evaluation.policies[i], evaluation.context).settled

\* the i-th policy is evaluated to a verdict that failed with enforcement e
FailedWith(i, e) ==
  /\ ~ PolicyOutcome(i).threw
  /\ ~ PolicyOutcome(i).value.passed
  /\ PolicyOutcome(i).value.enforcement = e

\* the i-th policy is evaluated to a verdict that carries an annotation
Annotated(i) == ~ PolicyOutcome(i).threw /\ PolicyOutcome(i).value.annotations # << >>

\* the rule evaluator is invoked on the i-th policy and throws
EvaluatorThrows(i) ==
  LET policy == evaluation.policies[i] IN
  /\ isPolicyActive(policy, evaluation.context.timestamp)
  /\ registryEvaluate(policy.rule.format, policy.rule.expression, evaluation.context).threw

\* C11: evaluateAll returns a verdict for every policy list and context, with
\* result DENY if a policy failed with enforcement BLOCK, otherwise ESCALATE
\* if one failed with enforcement ESCALATE, otherwise ANNOTATE if a policy
\* produced an annotation, otherwise ALLOW.
C11_AggregationPrecedence ==
  evaluation.call = "evaluateAll"
  => /\ ~ evaluation.settled.threw
     /\ evaluation.settled.value.result =
          IF \E i \in DOMAIN evaluation.policies : FailedWith(i, "BLOCK") THEN "DENY"
          ELSE IF \E i \in DOMAIN evaluation.policies : FailedWith(i, "ESCALATE") THEN "ESCALATE"
          ELSE IF \E i \in DOMAIN evaluation.policies : Annotated(i) THEN "ANNOTATE"
          ELSE "ALLOW"

\* C12: when the rule evaluator of an active policy throws, evaluatePolicy
\* returns passed = false with enforcement BLOCK and the error recorded, and
\* evaluateAll over a list that contains such a policy returns DENY.
C12_EvaluatorErrorBlocks ==
  /\ (evaluation.call = "evaluatePolicy" /\ EvaluatorThrows(evaluation.index))
     => /\ ~ evaluation.settled.threw
        /\ ~ evaluation.settled.value.passed
        /\ evaluation.settled.value.enforcement = "BLOCK"
        /\ IsSet(evaluation.settled.value.error)
  /\ (evaluation.call = "evaluateAll" /\ \E i \in DOMAIN evaluation.policies : EvaluatorThrows(i))
     => /\ ~ evaluation.settled.threw
        /\ evaluation.settled.value.result = "DENY"

\* the policy is not active at the instant: its status is not ACTIVE, the
\* instant is before activatesAt, or it is at or after expiresAt
NotActiveAt(policy, timestamp) ==
  \/ policy.status # "ACTIVE"
  \/ timestamp < policy.activation.activatesAt
  \/ IsSet(policy.activation.expiresAt) /\ timestamp >= policy.activation.expiresAt[1]

\* C14: evaluatePolicy on a policy that is not active at context.timestamp
\* returns passed = true with no annotations and does not invoke the rule
\* evaluator, and in a verdict of evaluateAll the entry of such a policy has
\* passed and carries no annotation; on any other policy, one whose window
\* opens at context.timestamp included, the rule evaluator is invoked.
C14_InactivePolicyPasses ==
  /\ evaluation.call = "evaluatePolicy"
     => LET policy == evaluation.policies[evaluation.index] IN
        IF NotActiveAt(policy, evaluation.context.timestamp)
        THEN /\ ~ evaluation.invoked
             /\ ~ evaluation.settled.threw
             /\ evaluation.settled.value.passed
             /\ evaluation.settled.value.annotations = << >>
        ELSE evaluation.invoked
  /\ (evaluation.call = "evaluateAll" /\ ~ evaluation.settled.threw)
     => \A i \in DOMAIN evaluation.policies :
          NotActiveAt(evaluation.policies[i], evaluation.context.timestamp)
          => /\ evaluation.settled.value.policyResults[i].verdict.passed
             /\ evaluation.settled.value.policyResults[i].verdict.annotations = << >>

\* evaluatePolicy has returned without invoking the rule evaluator for an
\* ACTIVE policy at the very instant it expires
C14_Witness ==
  /\ evaluation.call = "evaluatePolicy"
  /\ evaluation.policies[evaluation.index].status = "ACTIVE"
  /\ evaluation.policies[evaluation.index].activation.expiresAt
       = Some(evaluation.context.timestamp)
  /\ ~ evaluation.invoked
  /\ evaluation.settled.value.passed

\* C15: enforce(verdict) returns canProceed = true exactly for ALLOW and
\* ANNOTATE; DENY gives type BLOCK, ESCALATE gives type ESCALATE with one
\* required step, of type 'approval', ANNOTATE gives type ANNOTATE with the
\* verdict's annotations, ALLOW gives no annotations.
C15_EnforceMapsResult ==
  evaluation.call = "enforce"
  => LET verdict == evaluation.settled.value
         action == evaluation.action[1]
     IN /\ action.canProceed <=> verdict.result \in {"ALLOW", "ANNOTATE"}
        /\ verdict.result = "DENY" => action.type = "BLOCK"
        /\ verdict.result = "ESCALATE"
           => /\ action.type = "ESCALATE"
              /\ IsSet(action.requiredSteps)
              /\ Len(action.requiredSteps[1]) = 1
              /\ action.requiredSteps[1][1].type = "approval"
        /\ verdict.result = "ANNOTATE"
           => action.type = "ANNOTATE" /\ action.annotations = verdict.annotations
        /\ verdict.result = "ALLOW" => action.annotations = << >>

\* enforce has returned the action of an ESCALATE verdict
C15_Witness ==
  /\ evaluation.call = "enforce"
  /\ evaluation.settled.value.result = "ESCALATE"
  /\ evaluation.action[1].type = "ESCALATE"
  /\ ~ evaluation.action[1].canProceed

(***************************************************************************)
(* The pipeline: the verdict handed to evaluate() is the one evaluateAll   *)
(* returns for the decision                                                *)
(***************************************************************************)
\* the policies of the pipeline: active from instant 1 on, never expiring
PipelinePolicy(enforcement, rule) ==
  [name |-> "limit", enforcement |-> enforcement, status |-> "ACTIVE",
   activation |-> [activatesAt |-> 1, expiresAt |-> Undefined], rule |-> rule]

PipelinePolicyLists ==
  { << >>,
    << PipelinePolicy("BLOCK", AmountBelowLimit) >>,
    << PipelinePolicy("BLOCK", ThrowsTypeError) >>,
    << PipelinePolicy("ESCALATE", AmountBelowLimit) >> }

\* the contexts a caller builds for decision id at the current instant
PipelineContexts(id) == { c \in ContextsFor(id) : c.timestamp = now }

\* `evaluate(id, await evaluateAll(policies, context))`
EvaluateVerdictOf(id, policies, context) ==
  LET verdict == evaluateAll(policies, context, now) IN
  /\ ~ verdict.threw
  /\ Evaluate(id, verdict.value)

\* evaluate() has just been handed, for the PROPOSED decision id, a verdict in
\* which a policy blocks
DeniedByBlock(id) ==
  /\ last.op = "evaluate" /\ last.id = Some(id) /\ last.read = "PROPOSED"
  /\ last.arg[1].blockingPolicies # << >>

\* what a step of the lifecycle leaves alone
aroundLifecycle == <<engineVars, queueVars, managerVars, historyVars, resolverVars>>

PipelineNext ==
  \/ Tick /\ UNCHANGED aroundLifecycle
  \/ \E input \in ProposeInputs : Propose(input) /\ UNCHANGED aroundLifecycle
  \/ \E id \in AllIds, policies \in PipelinePolicyLists : \E context \in PipelineContexts(id) :
       /\ EvaluateVerdictOf(id, policies, context)
       /\ denied' = IF DeniedByBlock(id)' THEN denied \cup {id} ELSE denied
       /\ UNCHANGED <<engineVars, queueVars, managerVars, resolverVars>>
  \/ \E id \in AllIds : CommitStart(id) /\ UNCHANGED aroundLifecycle
  \/ \E c \in Suspended : CommitWrite(c) /\ UNCHANGED aroundLifecycle
  \/ \E c \in Suspended : CommitSettle(c) /\ UNCHANGED aroundLifecycle
  \/ \E id \in AllIds : Reject(id, Undefined) /\ UNCHANGED aroundLifecycle
  \/ \E id \in AllIds : Approve(id, "bob", Undefined) /\ UNCHANGED aroundLifecycle
  \/ \E id \in AllIds : Cancel(id, Undefined) /\ UNCHANGED aroundLifecycle

PipelineSpec == Init /\ [][PipelineNext]_vars

\* C13: when evaluateAll runs over a list in which an active BLOCK policy's
\* rule is false or its evaluator errors, and evaluate() is handed the verdict,
\* the decision goes from PROPOSED to REJECTED, and from then on it is never
\* COMMITTED.
C13_BlockedNeverCommits ==
  [][ \A id \in DecisionIds :
        /\ DeniedByBlock(id)' => decisions'[id].state = "REJECTED"
        /\ id \in denied' => ~ (Stored(id)' /\ decisions'[id].state = "COMMITTED")
    ]_vars

(***************************************************************************)
(* Part 3: the approval queue                                              *)
(***************************************************************************)
\* largest number of requests kept in the queue
MaxRequests == 2

\* Instants are milliseconds counted from the start of the model's clock.
\* toISOString() writes an instant before the year 10000 with a four-digit
\* year and a later one with a sign and six digits ("+010000-01-01T...");
\* the model places the year 10000 at 10^9 ms.
YearTenThousand == 1000000000
\* ApprovalQueue.defaultTimeoutMs: 24 hours
defaultTimeoutMs == 86400000
\* a timeout that reaches beyond the year 9999
FarTimeoutMs == 2000000000

\* Date.prototype.toISOString
toISOString(ms) == [extended |-> ms >= YearTenThousand, ms |-> ms]

\* variant: two ISO strings are compared as the instants they denote
isoBefore_AsInstants(a, b) == a.ms < b.ms

\* `a < b` on two ISO strings: the strings are compared character by
\* character, and "+" sorts before every digit
isoBefore(a, b) ==
  IF a.extended = b.extended THEN a.ms < b.ms ELSE a.extended

ApprovalStatus == {"PENDING", "IN_REVIEW", "APPROVED", "REJECTED", "TIMED_OUT", "WITHDRAWN"}

\* CreateApprovalRequestInput
TimeoutsMs == {Undefined, Some(0), Some(1), Some(FarTimeoutMs)}
ApproverLists == {<< >>, <<"bob">>}
CreateApprovalRequestInputs ==
  [decisionId : {ContextDecisionId}, requestedBy : {"alice"}, reason : {"escalated"},
   approvers : ApproverLists, timeoutMs : TimeoutsMs]

\* the data hashed by createRequest()
requestData(input, createdAt) ==
  [decisionId |-> input.decisionId, requestedBy |-> input.requestedBy,
   reason |-> input.reason, createdAt |-> createdAt]

RequestIds ==
  { computeContentAddress(requestData(input, toISOString(t))) :
      input \in CreateApprovalRequestInputs, t \in Clock }

\* a request id under which nothing was ever stored
MissingRequestId == computeContentAddress([fake |-> "request"])
AllRequestIds == RequestIds \cup {MissingRequestId}

\* `input.timeoutMs ?? this.defaultTimeoutMs`
timeoutOf(input) == IF IsSet(input.timeoutMs) THEN input.timeoutMs[1] ELSE defaultTimeoutMs

\* the ApprovalRequest built by createRequest()
createdRequest(input, at) ==
  [id |-> computeContentAddress(requestData(input, toISOString(at))),
   decisionId |-> input.decisionId,
   status |-> "PENDING",
   requestedBy |-> input.requestedBy,
   reason |-> input.reason,
   approvers |-> input.approvers,
   createdAt |-> toISOString(at),
   expiresAt |-> toISOString(at + timeoutOf(input)),
   outcome |-> Undefined]

\* the index by approver after a request has been added to it
indexedByApprover(index, approvers, id) ==
  [a \in (DOMAIN index) \cup { approvers[i] : i \in DOMAIN approvers } |->
     IF includes(approvers, a)
     THEN (IF a \in DOMAIN index THEN index[a] ELSE {}) \cup {id}
     ELSE index[a]]

\* `this.requests.set(id, request)` of createRequest() at clock reading at
queueWith(queue, input, at) ==
  MapSet(queue, createdRequest(input, at).id, createdRequest(input, at))

CreateRequest(input) ==
  LET request == createdRequest(input, now) IN
  /\ Cardinality((DOMAIN requests) \cup {request.id}) <= MaxRequests
  /\ requests' = queueWith(requests, input, now)
  /\ byDecision' = MapSet(byDecision, input.decisionId, request.id)
  /\ byApprover' = indexedByApprover(byApprover, input.approvers, request.id)
  /\ last' = Result("createRequest", Some(request.id), TRUE, NoError, "", Some(input))
  /\ UNCHANGED now

\* the errors of the queue
RequestNotFoundError == [kind |-> "RequestNotFound", from |-> "", targets |-> << >>]
\* `Request ... is not pending / cannot be decided / cannot be withdrawn (status: ...)`
RequestStatusError(status) == [kind |-> "RequestStatus", from |-> status, targets |-> << >>]
\* `Actor ... is not authorized ...`, `Only the requester can withdraw the request`
NotAuthorizedError == [kind |-> "NotAuthorized", from |-> "", targets |-> << >>]

\* a call of the queue that throws: it has changed nothing
QueueFail(op, id, error, actor) ==
  /\ last' = Result(op, Some(id), FALSE, error, "", Some(actor))
  /\ UNCHANGED <<queueVars, now>>

\* the request ids a caller passes: those of the stored requests and one that
\* is unknown
CallRequestIds == (DOMAIN requests) \cup {MissingRequestId}

\* variant: startReview() also accepts a request that is already terminal
isPending_OrTerminal(request) == request.status # "IN_REVIEW"

\* the status test of startReview()
isPending(request) == request.status = "PENDING"

\* variant: every request can still be decided, withdrawn or timed out
isOpen_Always(request) == TRUE

\* the status test of recordDecision(), withdraw() and processTimeouts()
isOpen(request) == request.status \in {"PENDING", "IN_REVIEW"}

\* variant: recordDecision() does not check who decides
mayDecide_Anyone(request, decidedBy) == TRUE

\* `request.approvers.includes(decidedBy)` of recordDecision()
mayDecide(request, decidedBy) == includes(request.approvers, decidedBy)

StartReview(requestId, reviewerId) ==
  /\ requestId \in CallRequestIds
  /\ IF ~ MapHas(requests, requestId)
     THEN QueueFail("startReview", requestId, RequestNotFoundError, reviewerId)
     ELSE LET request == requests[requestId] IN
       IF ~ isPending(request)
       THEN QueueFail("startReview", requestId, RequestStatusError(request.status), reviewerId)
       ELSE IF ~ includes(request.approvers, reviewerId)
       THEN QueueFail("startReview", requestId, NotAuthorizedError, reviewerId)
       ELSE /\ requests' = MapSet(requests, requestId, [request EXCEPT !.status = "IN_REVIEW"])
            /\ last' = Result("startReview", Some(requestId), TRUE, NoError, request.status,
                              Some(reviewerId))
            /\ UNCHANGED <<byDecision, byApprover, now>>

\* the ApprovalOutcome built by recordDecision()
decidedOutcome(decision, decidedBy, decidedAt, justification) ==
  [decision |-> decision, decidedBy |-> decidedBy, decidedAt |-> decidedAt,
   justification |-> justification, automated |-> FALSE]

RecordDecision(requestId, decision, decidedBy, justification) ==
  /\ requestId \in CallRequestIds
  /\ IF ~ MapHas(requests, requestId)
     THEN QueueFail("recordDecision", requestId, RequestNotFoundError, decidedBy)
     ELSE LET request == requests[requestId] IN
       IF ~ isOpen(request)
       THEN QueueFail("recordDecision", requestId, RequestStatusError(request.status), decidedBy)
       ELSE IF ~ mayDecide(request, decidedBy)
       THEN QueueFail("recordDecision", requestId, NotAuthorizedError, decidedBy)
       ELSE /\ requests' = MapSet(requests, requestId,
                 [request EXCEPT
                    !.status = IF decision = "approved" THEN "APPROVED" ELSE "REJECTED",
                    !.outcome = Some(decidedOutcome(decision, decidedBy, toISOString(now),
                                                    justification))])
            /\ last' = Result("recordDecision", Some(requestId), TRUE, NoError, request.status,
                              Some(decidedBy))
            /\ UNCHANGED <<byDecision, byApprover, now>>

Withdraw(requestId, withdrawnBy) ==
  /\ requestId \in CallRequestIds
  /\ IF ~ MapHas(requests, requestId)
     THEN QueueFail("withdraw", requestId, RequestNotFoundError, withdrawnBy)
     ELSE LET request == requests[requestId] IN
       IF ~ isOpen(request)
       THEN QueueFail("withdraw", requestId, RequestStatusError(request.status), withdrawnBy)
       ELSE IF request.requestedBy # withdrawnBy
       THEN QueueFail("withdraw", requestId, NotAuthorizedError, withdrawnBy)
       ELSE /\ requests' = MapSet(requests, requestId, [request EXCEPT !.status = "WITHDRAWN"])
            /\ last' = Result("withdraw", Some(requestId), TRUE, NoError, request.status,
                              Some(withdrawnBy))
            /\ UNCHANGED <<byDecision, byApprover, now>>

\* the ApprovalOutcome built by processTimeouts(); both default actions
\* record 'rejected'
timedOutOutcome(request, defaultAction, decidedAt) ==
  [decision |-> IF defaultAction = "reject" THEN "rejected" ELSE "rejected",
   decidedBy |-> request.requestedBy, decidedAt |-> decidedAt,
   justification |-> Some("Approval request timed out"), automated |-> TRUE]

\* variant: a request under review is never timed out
expired_PendingOnly(request, at) ==
  isPending(request) /\ isoBefore(request.expiresAt, toISOString(at))

\* the test of the loop of processTimeouts()
expired(request, at) == isOpen(request) /\ isoBefore(request.expiresAt, toISOString(at))

timedOutRequest(request, defaultAction, at) ==
  [request EXCEPT !.status = "TIMED_OUT",
                  !.outcome = Some(timedOutOutcome(request, defaultAction, toISOString(at)))]

\* the map of requests after the loop of processTimeouts() at clock reading at
queueAfterTimeouts(queue, defaultAction, at) ==
  [id \in DOMAIN queue |->
     IF expired(queue[id], at)
     THEN timedOutRequest(queue[id], defaultAction, at)
     ELSE queue[id]]

\* processTimeouts(defaultAction); it returns the requests it timed out (their
\* order, that of their insertion in the map, is not kept)
ProcessTimeouts(defaultAction) ==
  /\ requests' = queueAfterTimeouts(requests, defaultAction, now)
  /\ last' = Result("processTimeouts", Undefined, TRUE, NoError, "",
                    Some([defaultAction |-> defaultAction,
                          timedOut |-> { timedOutRequest(requests[id], defaultAction, now) :
                                           id \in { i \in DOMAIN requests :
                                                      expired(requests[i], now) } }]))
  /\ UNCHANGED <<byDecision, byApprover, now>>

DefaultActions == {"reject", "escalate"}
Decisions == {"approved", "rejected"}

QueueNext ==
  \/ Tick /\ UNCHANGED <<engineVars, queueVars, managerVars, historyVars, resolverVars>>
  \/ \E input \in CreateApprovalRequestInputs :
       CreateRequest(input) /\ UNCHANGED <<lifecycleVars, engineVars, managerVars, historyVars, resolverVars>>
  \/ \E requestId \in AllRequestIds, reviewerId \in Actors :
       StartReview(requestId, reviewerId) /\ UNCHANGED <<lifecycleVars, engineVars, managerVars, historyVars, resolverVars>>
  \/ \E requestId \in AllRequestIds, decision \in Decisions, decidedBy \in Actors :
       RecordDecision(requestId, decision, decidedBy, Undefined)
         /\ UNCHANGED <<lifecycleVars, engineVars, managerVars, historyVars, resolverVars>>
  \/ \E requestId \in AllRequestIds, withdrawnBy \in Actors :
       Withdraw(requestId, withdrawnBy) /\ UNCHANGED <<lifecycleVars, engineVars, managerVars, historyVars, resolverVars>>
  \/ \E defaultAction \in DefaultActions :
       ProcessTimeouts(defaultAction) /\ UNCHANGED <<lifecycleVars, engineVars, managerVars, historyVars, resolverVars>>

QueueSpec == Init /\ [][QueueNext]_vars

(***************************************************************************)
(* The approval queue: properties                                          *)
(***************************************************************************)
TerminalStatuses == {"APPROVED", "REJECTED", "TIMED_OUT", "WITHDRAWN"}
Queued(id) == id \in DOMAIN requests
QueuedAfter(id) == id \in DOMAIN requests'

\* r is the result of a startReview, recordDecision or withdraw on request id
Targets(r, id) == r.op \in {"startReview", "recordDecision", "withdraw"} /\ r.id = Some(id)

\* C16: in every step of startReview, recordDecision, withdraw or
\* processTimeouts, a request whose status is APPROVED, REJECTED, TIMED_OUT or
\* WITHDRAWN keeps its status and its outcome, and a startReview,
\* recordDecision or withdraw that targets it fails.
C16_ResolvedRequestIsFinal ==
  [][ last'.op \in {"startReview", "recordDecision", "withdraw", "processTimeouts"}
      => \A id \in DOMAIN requests :
           requests[id].status \in TerminalStatuses
           => /\ QueuedAfter(id)
              /\ requests'[id].status = requests[id].status
              /\ requests'[id].outcome = requests[id].outcome
              /\ Targets(last', id) => ~ last'.ok
    ]_vars

\* a recordDecision by an approver has failed on a request that had timed out
C16_Witness ==
  /\ last.op = "recordDecision" /\ ~ last.ok
  /\ Queued(last.id[1])
  /\ requests[last.id[1]].status = "TIMED_OUT"
  /\ includes(requests[last.id[1]].approvers, last.arg[1])
  /\ last.error = RequestStatusError("TIMED_OUT")

\* C17: a startReview or recordDecision by an actor who is not among the
\* request's approvers fails and changes nothing, a withdraw by an actor who
\* is not its requestedBy fails and changes nothing, and every outcome that
\* is not automated has its decidedBy among the request's approvers.
C17_OnlyApproversDecide ==
  [][ /\ \A id \in DOMAIN requests :
           /\ ( /\ last'.op \in {"startReview", "recordDecision"} /\ last'.id = Some(id)
                /\ ~ includes(requests[id].approvers, last'.arg[1]) )
              => ~ last'.ok /\ requests' = requests
           /\ ( /\ last'.op = "withdraw" /\ last'.id = Some(id)
                /\ requests[id].requestedBy # last'.arg[1] )
              => ~ last'.ok /\ requests' = requests
      /\ \A id \in DOMAIN requests' :
           (IsSet(requests'[id].outcome) /\ ~ requests'[id].outcome[1].automated)
           => includes(requests'[id].approvers, requests'[id].outcome[1].decidedBy)
    ]_vars

\* a recordDecision on an open request has failed because the actor is not
\* one of its approvers
C17_Witness ==
  /\ last.op = "recordDecision" /\ ~ last.ok
  /\ last.error = NotAuthorizedError
  /\ Queued(last.id[1])
  /\ requests[last.id[1]].status \in {"PENDING", "IN_REVIEW"}
  /\ ~ includes(requests[last.id[1]].approvers, last.arg[1])

Unresolved(request) == request.status \in {"PENDING", "IN_REVIEW"}

\* C19: a processTimeouts() at clock value now turns every request that is
\* PENDING or IN_REVIEW and whose expiresAt lies before now into a TIMED_OUT
\* request with outcome {decision 'rejected', automated true, decidedBy =
\* requestedBy}, which it returns, and leaves every other request as it was.
C19_TimeoutsResolveExactlyTheExpired ==
  [][ last'.op = "processTimeouts"
      => /\ DOMAIN requests' = DOMAIN requests
         /\ \A id \in DOMAIN requests :
              IF Unresolved(requests[id]) /\ requests[id].expiresAt.ms < now
              THEN /\ requests'[id].status = "TIMED_OUT"
                   /\ IsSet(requests'[id].outcome)
                   /\ requests'[id].outcome[1].decision = "rejected"
                   /\ requests'[id].outcome[1].automated
                   /\ requests'[id].outcome[1].decidedBy = requests[id].requestedBy
                   /\ requests'[id] \in last'.arg[1].timedOut
              ELSE /\ requests'[id] = requests[id]
                   /\ \A returned \in last'.arg[1].timedOut : returned.id # id
    ]_vars

\* C20: a processTimeouts('reject') made when the time elapsed since the
\* creation of a PENDING or IN_REVIEW request is at least its timeout (the
\* clock reads its creation time plus the timeout, or later) leaves the request
\* TIMED_OUT with outcome.automated = true and outcome.decision = 'rejected'.
C20_TimedOutOnceTimeoutElapsed ==
  [][ (last'.op = "processTimeouts" /\ last'.arg[1].defaultAction = "reject")
      => \A id \in DOMAIN requests :
           ( /\ Unresolved(requests[id])
             /\ now - requests[id].createdAt.ms
                  >= requests[id].expiresAt.ms - requests[id].createdAt.ms )
           => /\ requests'[id].status = "TIMED_OUT"
              /\ IsSet(requests'[id].outcome)
              /\ requests'[id].outcome[1].automated
              /\ requests'[id].outcome[1].decision = "rejected"
    ]_vars

\* the status and the outcome of every request of a queue
Resolutions(queue) ==
  [id \in DOMAIN queue |-> [status |-> queue[id].status, outcome |-> queue[id].outcome]]

\* C21: in every queue state and at every clock reading, for every new request
\* whose id is not that of a stored one, createRequest followed by
\* processTimeouts leaves every request with the same status and outcome as
\* processTimeouts followed by createRequest.
C21_TimeoutsCommuteWithCreate ==
  \A input \in CreateApprovalRequestInputs, defaultAction \in DefaultActions :
    createdRequest(input, now).id \notin DOMAIN requests
    => Resolutions(queueAfterTimeouts(queueWith(requests, input, now), defaultAction, now))
       = Resolutions(queueWith(queueAfterTimeouts(requests, defaultAction, now), input, now))

(***************************************************************************)
(* Part 4: the escalation manager                                          *)
(***************************************************************************)
\* largest number of registered rules, of registered paths, of escalation
\* records, and of events in the history of a record
MaxRules == 2
MaxPaths == 2
MaxRecords == 2
MaxHistory == 3

\* EscalationLevel
L1 == 1
L2 == 2
\* the default of registerPath's defaultTimeoutMs: 8 hours
pathDefaultTimeoutMs == 28800000

\* a scope or a scope pattern is the list of its parts, `scope.split(':')`
AnyScope == <<"*">>
FinancialPattern == <<"financial", "*">>
TransferScope == <<"financial", "transfer">>

\* the loop of scopeMatches(pattern, target), from index i (counted from 1)
RECURSIVE scopeMatchesFrom(_, _, _)
scopeMatchesFrom(patternParts, targetParts, i) ==
  IF i > Len(patternParts)
  THEN Len(patternParts) <= Len(targetParts)
  ELSE IF patternParts[i] = "*"
       THEN IF i = Len(patternParts) THEN TRUE
            ELSE scopeMatchesFrom(patternParts, targetParts, i + 1)
       ELSE IF i > Len(targetParts) \/ patternParts[i] # targetParts[i]
            THEN FALSE
            ELSE scopeMatchesFrom(patternParts, targetParts, i + 1)

\* EscalationManager.scopeMatches
scopeMatches(pattern, target) ==
  IF pattern = AnyScope THEN TRUE ELSE scopeMatchesFrom(pattern, target, 1)

\* EscalationCondition of type amount_threshold with operator greater_than
AmountAbove(value) ==
  [type |-> "amount_threshold", operator |-> "greater_than", value |-> value]

\* the arguments of registerRule: name, trigger, conditions, options.targetLevel
RuleInputs ==
  { [name |-> "large", trigger |-> "POLICY_ESCALATE",
     conditions |-> << AmountAbove(10000) >>, targetLevel |-> Some(L2)],
    [name |-> "any", trigger |-> "POLICY_ESCALATE",
     conditions |-> << >>, targetLevel |-> Some(L2)],
    [name |-> "medium", trigger |-> "POLICY_ESCALATE",
     conditions |-> << AmountAbove(1000) >>, targetLevel |-> Undefined],
    [name |-> "manual", trigger |-> "MANUAL_REQUEST",
     conditions |-> << >>, targetLevel |-> Some(L2)] }

\* the EscalationRule built by registerRule()
registeredRule(input) ==
  [id |-> computeContentAddress([name |-> input.name, trigger |-> input.trigger,
                                 conditions |-> input.conditions]),
   name |-> input.name,
   trigger |-> input.trigger,
   conditions |-> input.conditions,
   targetLevel |-> IF IsSet(input.targetLevel) THEN input.targetLevel[1] ELSE L1,
   active |-> TRUE]

\* Map.prototype.set on a map kept in insertion order: a key that is present
\* keeps its place
OrderedSet(entries, entry) ==
  IF \E i \in DOMAIN entries : entries[i].id = entry.id
  THEN [i \in DOMAIN entries |-> IF entries[i].id = entry.id THEN entry ELSE entries[i]]
  ELSE Append(entries, entry)

\* EscalationPathLevel
PathLevel(level, approvers, timeoutMs) ==
  [level |-> level, approvers |-> approvers, timeoutMs |-> timeoutMs]

\* the arguments of registerPath: scopePattern and levels; the levels of a
\* path are distinct
PathInputs ==
  { [scopePattern |-> AnyScope,
     levels |-> << PathLevel(L1, <<"bob">>, Some(0)), PathLevel(L2, <<"alice">>, Undefined) >>],
    [scopePattern |-> FinancialPattern,
     levels |-> << PathLevel(L2, <<"alice">>, Some(0)) >>] }

\* the EscalationPath built by registerPath()
registeredPath(input) ==
  [id |-> computeContentAddress([scopePattern |-> input.scopePattern,
                                 levels |-> input.levels]),
   scopePattern |-> input.scopePattern,
   levels |-> input.levels,
   defaultTimeoutMs |-> pathDefaultTimeoutMs]

\* the first entry of a list that satisfies a test, or undefined
\* (Array.prototype.find, and the loops of findPath and findMatchingRule)
FirstIndex(matching) == CHOOSE i \in matching : \A j \in matching : i <= j
FirstOf(entries, matching) ==
  IF matching = {} THEN Undefined ELSE Some(entries[FirstIndex(matching)])

\* findPath(scope)
findPath(scope) ==
  FirstOf(paths, { i \in DOMAIN paths : scopeMatches(paths[i].scopePattern, scope) })

\* evaluateCondition(condition, decision, verdict)
evaluateCondition(condition, decision, verdict) ==
  IF condition.type = "scope_pattern"
  THEN IsSet(verdict) /\ scopeMatches(condition.value, verdict[1].scope)
  ELSE IF condition.type = "amount_threshold"
  THEN IF ~ IsSet(decision.amount) THEN TRUE
       ELSE IF condition.operator = "greater_than"
            THEN decision.amount[1] > condition.value
            ELSE decision.amount[1] < condition.value
  ELSE TRUE

\* evaluateConditions(conditions, decision, verdict)
evaluateConditions(conditions, decision, verdict) ==
  \A i \in DOMAIN conditions : evaluateCondition(conditions[i], decision, verdict)

\* variant: the rule's trigger is not compared with the trigger of the call
triggerFits_Any(rule, trigger) == TRUE

\* `rule.trigger !== trigger` of findMatchingRule()
triggerFits(rule, trigger) == rule.trigger = trigger

\* findMatchingRule(trigger, decision, verdict)
findMatchingRule(trigger, decision, verdict) ==
  FirstOf(rules, { i \in DOMAIN rules :
                     /\ rules[i].active
                     /\ triggerFits(rules[i], trigger)
                     /\ evaluateConditions(rules[i].conditions, decision, verdict) })

\* TriggerEscalationInput: the decision (its id and the amount among the
\* parameters of its action), the trigger, the scope of the verdict when a
\* verdict is given, and the requesting actor
TriggerEscalationInputs ==
  [decision : {[id |-> ContextDecisionId, amount |-> Some(5000)]},
   trigger : {"POLICY_ESCALATE"},
   verdict : {Undefined, Some([scope |-> TransferScope])},
   requestedBy : {"alice"}]

\* the reasons the manager gives to the queue:
\* `Escalation: ${trigger}` and
\* `Escalated from L${from} to L${to}: ${reason}`
EscalationReason(trigger) == [kind |-> "Escalation", from |-> 0, to |-> 0, text |-> trigger]
EscalatedReason(from, to, reason) ==
  [kind |-> "Escalated", from |-> from, to |-> to, text |-> reason]

\* EscalationEvent
EscalationEvent(type, level, timestamp, actorId, details) ==
  [type |-> type, level |-> level, timestamp |-> timestamp, actorId |-> actorId,
   details |-> details]

\* the data hashed by triggerEscalation()
recordData(decisionId, trigger, pathId, startedAt) ==
  [decisionId |-> decisionId, trigger |-> trigger, pathId |-> pathId, startedAt |-> startedAt]

\* the ids of the records triggerEscalation() can build
RecordIds ==
  { computeContentAddress(recordData(input.decision.id, input.trigger,
                                     registeredPath(path).id, toISOString(t))) :
      input \in TriggerEscalationInputs, path \in PathInputs, t \in Clock }

\* an escalation record id under which nothing was ever stored
MissingRecordId == computeContentAddress([fake |-> "record"])
\* the record ids a caller passes
CallRecordIds == (DOMAIN records) \cup {MissingRecordId}
AllRecordIds == RecordIds \cup {MissingRecordId}

\* the errors of the manager
NoPathError == [kind |-> "NoEscalationPath", from |-> "", targets |-> << >>]
NoLevelError == [kind |-> "NoLevelConfiguration", from |-> "", targets |-> << >>]
RecordNotFoundError == [kind |-> "RecordNotFound", from |-> "", targets |-> << >>]
PathNotFoundError == [kind |-> "PathNotFound", from |-> "", targets |-> << >>]

\* a call of the manager that throws: it has changed nothing
ManagerFail(op, id, error, arg) ==
  /\ last' = Result(op, id, FALSE, error, "", Some(arg))
  /\ UNCHANGED <<queueVars, managerVars, now>>

\* this.approvalQueue.createRequest(input), called by the manager
queueCreateRequest(input) ==
  /\ requests' = queueWith(requests, input, now)
  /\ byDecision' = MapSet(byDecision, input.decisionId, createdRequest(input, now).id)
  /\ byApprover' = indexedByApprover(byApprover, input.approvers, createdRequest(input, now).id)

\* `levelConfig.timeoutMs ?? path.defaultTimeoutMs`
levelTimeoutMs(levelConfig, path) ==
  IF IsSet(levelConfig.timeoutMs) THEN levelConfig.timeoutMs ELSE Some(path.defaultTimeoutMs)

registerRule(input) ==
  /\ records = << >>
  /\ Len(OrderedSet(rules, registeredRule(input))) <= MaxRules
  /\ rules' = OrderedSet(rules, registeredRule(input))
  /\ last' = Result("registerRule", Some(registeredRule(input).id), TRUE, NoError, "",
                    Some(input))
  /\ UNCHANGED <<queueVars, paths, records, recordByDecision, now>>

registerPath(input) ==
  /\ records = << >>
  /\ Len(OrderedSet(paths, registeredPath(input))) <= MaxPaths
  /\ paths' = OrderedSet(paths, registeredPath(input))
  /\ last' = Result("registerPath", Some(registeredPath(input).id), TRUE, NoError, "",
                    Some(input))
  /\ UNCHANGED <<queueVars, rules, records, recordByDecision, now>>

\* the request triggerEscalation() asks the queue to create
initialRequestInput(input, levelConfig, path) ==
  [decisionId |-> input.decision.id,
   requestedBy |-> input.requestedBy,
   reason |-> EscalationReason(input.trigger),
   approvers |-> levelConfig.approvers,
   timeoutMs |-> levelTimeoutMs(levelConfig, path)]

\* the EscalationRecord built by triggerEscalation()
startedRecord(input, matchingRule, path, initialLevel, approvalRequestId, startedAt) ==
  [id |-> computeContentAddress(recordData(input.decision.id, input.trigger, path.id,
                                           startedAt)),
   decisionId |-> input.decision.id,
   trigger |-> input.trigger,
   ruleId |-> IF IsSet(matchingRule) THEN Some(matchingRule[1].id) ELSE Undefined,
   currentLevel |-> initialLevel,
   pathId |-> path.id,
   history |-> << EscalationEvent("started", initialLevel, startedAt,
                                  Some(input.requestedBy), <<"Escalation triggered", input.trigger>>) >>,
   startedAt |-> startedAt,
   approvalRequestId |-> Some(approvalRequestId)]

\* the level triggerEscalation() starts at
initialLevelOf(matchingRule) == IF IsSet(matchingRule) THEN matchingRule[1].targetLevel ELSE L1

\* `path.levels.find((l) => l.level === level)`
levelConfigOf(path, level) ==
  FirstOf(path.levels, { i \in DOMAIN path.levels : path.levels[i].level = level })

triggerEscalation(input) ==
  LET matchingRule == findMatchingRule(input.trigger, input.decision, input.verdict)
      scope == IF IsSet(input.verdict) THEN input.verdict[1].scope ELSE AnyScope
      path == findPath(scope)
  IN IF ~ IsSet(path)
     THEN ManagerFail("triggerEscalation", Undefined, NoPathError, input)
     ELSE LET initialLevel == initialLevelOf(matchingRule)
              levelConfig == levelConfigOf(path[1], initialLevel)
          IN IF ~ IsSet(levelConfig)
             THEN ManagerFail("triggerEscalation", Undefined, NoLevelError, input)
             ELSE LET requestInput == initialRequestInput(input, levelConfig[1], path[1])
                      record == startedRecord(input, matchingRule, path[1], initialLevel,
                                              createdRequest(requestInput, now).id,
                                              toISOString(now))
                  IN /\ Cardinality((DOMAIN records) \cup {record.id}) <= MaxRecords
                     /\ queueCreateRequest(requestInput)
                     /\ records' = MapSet(records, record.id, record)
                     /\ recordByDecision' = MapSet(recordByDecision, input.decision.id, record.id)
                     /\ last' = Result("triggerEscalation", Some(record.id), TRUE, NoError, "",
                                       Some(input))
                     /\ UNCHANGED <<rules, paths, now>>

\* variant: the current level is always taken to be the first of the path
levelIndexOf_First(path, level) == 1

\* `path.levels.findIndex((l) => l.level === record.currentLevel)`, counted
\* from 1; 0 when there is none
levelIndexOf(path, level) ==
  LET matching == { i \in DOMAIN path.levels : path.levels[i].level = level }
  IN IF matching = {} THEN 0 ELSE FirstIndex(matching)

\* the path stored under an id, or undefined
pathOf(pathId) == FirstOf(paths, { i \in DOMAIN paths : paths[i].id = pathId })

\* the request escalateToNextLevel() asks the queue to create
nextRequestInput(record, nextLevelConfig, path, reason, requestedBy) ==
  [decisionId |-> record.decisionId,
   requestedBy |-> requestedBy,
   reason |-> EscalatedReason(record.currentLevel, nextLevelConfig.level, reason),
   approvers |-> nextLevelConfig.approvers,
   timeoutMs |-> levelTimeoutMs(nextLevelConfig, path)]

\* `currentLevelIndex === path.levels.length - 1`
isLastLevel(path, index) == index = Len(path.levels)

\* variant: the level of the record is configured again
nextLevelConfigOf_Same(path, index) == Some(path.levels[index])

\* `path.levels[currentLevelIndex + 1]`, undefined past the end of the list
nextLevelConfigOf(path, index) ==
  IF index + 1 \in DOMAIN path.levels THEN Some(path.levels[index + 1]) ELSE Undefined

\* what escalateToNextLevel() returns: null, or the new approval request
Escalated(reason, requestedBy, approvalRequestId) ==
  [reason |-> reason, requestedBy |-> requestedBy, returned |-> approvalRequestId]

escalateToNextLevel(recordId, reason, requestedBy) ==
  /\ recordId \in CallRecordIds
  /\ IF ~ MapHas(records, recordId)
     THEN ManagerFail("escalateToNextLevel", Some(recordId), RecordNotFoundError,
                      Escalated(reason, requestedBy, Undefined))
     ELSE LET record == records[recordId]
              path == pathOf(record.pathId)
          IN IF ~ IsSet(path)
             THEN ManagerFail("escalateToNextLevel", Some(recordId), PathNotFoundError,
                              Escalated(reason, requestedBy, Undefined))
             ELSE LET currentLevelIndex == levelIndexOf(path[1], record.currentLevel) IN
               IF \/ currentLevelIndex = 0
                  \/ isLastLevel(path[1], currentLevelIndex)
                  \/ ~ IsSet(nextLevelConfigOf(path[1], currentLevelIndex))
               THEN /\ last' = Result("escalateToNextLevel", Some(recordId), TRUE, NoError, "",
                                      Some(Escalated(reason, requestedBy, Undefined)))
                    /\ UNCHANGED <<queueVars, managerVars, now>>
               ELSE LET nextLevelConfig == nextLevelConfigOf(path[1], currentLevelIndex)[1]
                        requestInput == nextRequestInput(record, nextLevelConfig, path[1], reason,
                                                         requestedBy)
                        approvalRequestId == createdRequest(requestInput, now).id
                    IN /\ Len(record.history) < MaxHistory
                       /\ Cardinality((DOMAIN requests) \cup {approvalRequestId}) <= MaxRequests + 1
                       /\ queueCreateRequest(requestInput)
                       /\ records' = MapSet(records, recordId,
                            [record EXCEPT
                               !.currentLevel = nextLevelConfig.level,
                               !.history = Append(record.history,
                                  EscalationEvent("escalated", nextLevelConfig.level,
                                                  toISOString(now), Some(requestedBy), reason)),
                               !.approvalRequestId = Some(approvalRequestId)])
                       /\ last' = Result("escalateToNextLevel", Some(recordId), TRUE, NoError, "",
                                         Some(Escalated(reason, requestedBy,
                                                        Some(approvalRequestId))))
                       /\ UNCHANGED <<rules, paths, recordByDecision, now>>

\* `details ?? `Escalation ${outcome}``
resolveDetails(outcome, details) == IF IsSet(details) THEN details[1] ELSE <<"Escalation", outcome>>

resolveEscalation(recordId, outcome, resolvedBy, details) ==
  /\ recordId \in CallRecordIds
  /\ IF ~ MapHas(records, recordId)
     THEN ManagerFail("resolveEscalation", Some(recordId), RecordNotFoundError,
                      [outcome |-> outcome, resolvedBy |-> resolvedBy])
     ELSE LET record == records[recordId] IN
          /\ Len(record.history) < MaxHistory
          /\ records' = MapSet(records, recordId,
               [record EXCEPT
                  !.history = Append(record.history,
                     EscalationEvent("resolved", record.currentLevel, toISOString(now),
                                     Some(resolvedBy), resolveDetails(outcome, details)))])
          /\ last' = Result("resolveEscalation", Some(recordId), TRUE, NoError, "",
                            Some([outcome |-> outcome, resolvedBy |-> resolvedBy]))
          /\ UNCHANGED <<queueVars, rules, paths, recordByDecision, now>>

\* the approvals the queue's processTimeouts() returns at clock reading at
timedOutApprovals(queue, at) == { id \in DOMAIN queue : expired(queue[id], at) }

\* the record the loop of the manager's processTimeouts() updates for an
\* approval: `this.byDecision.get(approval.decisionId)`
recordUpdatedFor(approval) ==
  IF MapHas(recordByDecision, approval.decisionId)
       /\ MapHas(records, recordByDecision[approval.decisionId])
  THEN Some(recordByDecision[approval.decisionId])
  ELSE Undefined

\* variant: the events are put in front of the history
AppendTimes_InFront(history, event, n) == IF n = 0 THEN history ELSE <<event>> \o history

\* a history followed by n copies of an event
RECURSIVE AppendTimes(_, _, _)
AppendTimes(history, event, n) ==
  IF n = 0 THEN history ELSE AppendTimes(Append(history, event), event, n - 1)

\* EscalationManager.processTimeouts(): the events its loop appends to one
\* record all read the same level and the same clock
managerProcessTimeouts ==
  LET approvals == timedOutApprovals(requests, now)
      updates(recordId) ==
        Cardinality({ id \in approvals : recordUpdatedFor(requests[id]) = Some(recordId) })
  IN /\ \A recordId \in DOMAIN records :
          Len(records[recordId].history) + updates(recordId) <= MaxHistory
     /\ requests' = queueAfterTimeouts(requests, "reject", now)
     /\ records' = [recordId \in DOMAIN records |->
                      [records[recordId] EXCEPT
                         !.history = AppendTimes(records[recordId].history,
                            EscalationEvent("timed_out", records[recordId].currentLevel,
                                            toISOString(now), Undefined,
                                            "Approval request timed out"),
                            updates(recordId))]]
     /\ last' = Result("manager.processTimeouts", Undefined, TRUE, NoError, "",
                       Some([timedOut |-> approvals]))
     /\ UNCHANGED <<byDecision, byApprover, rules, paths, recordByDecision, now>>

EscalationReasons == {"no answer"}
ResolveOutcomes == {"approved"}

ManagerNext ==
  \/ Tick /\ UNCHANGED <<engineVars, queueVars, managerVars, historyVars, resolverVars>>
  \/ \E input \in RuleInputs : registerRule(input) /\ UNCHANGED <<lifecycleVars, engineVars, historyVars, resolverVars>>
  \/ \E input \in PathInputs : registerPath(input) /\ UNCHANGED <<lifecycleVars, engineVars, historyVars, resolverVars>>
  \/ \E input \in TriggerEscalationInputs :
       triggerEscalation(input) /\ UNCHANGED <<lifecycleVars, engineVars, historyVars, resolverVars>>
  \/ \E recordId \in AllRecordIds, reason \in EscalationReasons :
       escalateToNextLevel(recordId, reason, "alice") /\ UNCHANGED <<lifecycleVars, engineVars, historyVars, resolverVars>>
  \/ \E recordId \in AllRecordIds, outcome \in ResolveOutcomes :
       resolveEscalation(recordId, outcome, "bob", Undefined)
         /\ UNCHANGED <<lifecycleVars, engineVars, historyVars, resolverVars>>
  \/ managerProcessTimeouts /\ UNCHANGED <<lifecycleVars, engineVars, historyVars, resolverVars>>

ManagerSpec == Init /\ [][ManagerNext]_vars

(***************************************************************************)
(* The escalation manager: properties                                      *)
(***************************************************************************)
\* the levels of the path a record follows
LevelsOf(record) == pathOf(record.pathId)[1].levels

\* the record's current level is the level of the last entry of its path
AtLastLevel(record) == record.currentLevel = LevelsOf(record)[Len(LevelsOf(record))].level

\* the step is an escalateToNextLevel on the stored record id
EscalatesRecord(id) == last'.op = "escalateToNextLevel" /\ last'.id = Some(id)

\* C22: an escalateToNextLevel on a record whose currentLevel is the last
\* level of its path returns null, leaves the record and every other record as
\* they were, and leaves the approval queue as it was.
C22_LastLevelEscalationIsNoOp ==
  [][ \A id \in DOMAIN records :
        (EscalatesRecord(id) /\ AtLastLevel(records[id]))
        => /\ last'.ok
           /\ last'.arg[1].returned = Undefined
           /\ records' = records
           /\ requests' = requests
    ]_vars

\* escalateToNextLevel has returned null on a record that an earlier
\* escalateToNextLevel had taken to the last level of a path of two levels
C22_Witness ==
  /\ last.op = "escalateToNextLevel" /\ last.ok
  /\ last.arg[1].returned = Undefined
  /\ MapHas(records, last.id[1])
  /\ AtLastLevel(records[last.id[1]])
  /\ Len(LevelsOf(records[last.id[1]])) = 2
  /\ Len(records[last.id[1]].history) = 2
  /\ records[last.id[1]].history[2].type = "escalated"

\* the position of the record's current level in the levels of its path
LevelIndex(record) ==
  CHOOSE i \in DOMAIN LevelsOf(record) : LevelsOf(record)[i].level = record.currentLevel

\* C23: an escalateToNextLevel on a record that is not at the last level of
\* its path sets currentLevel to the level that follows the current one in the
\* path's list, stores under the returned id a PENDING request without outcome,
\* created at this instant for the record's decision and addressed to the
\* approvers of that level, which is not the request the record pointed at
\* before, points the record's approvalRequestId at it, appends exactly one
\* 'escalated' event to the history and leaves every other record as it was.
C23_EscalationAdvancesOneLevel ==
  [][ \A id \in DOMAIN records :
        (EscalatesRecord(id) /\ ~ AtLastLevel(records[id]))
        => LET before == records[id]
               after == records'[id]
               next == LevelsOf(before)[LevelIndex(before) + 1]
               returned == last'.arg[1].returned
           IN /\ last'.ok
              /\ IsSet(returned)
              /\ after.currentLevel = next.level
              /\ after.approvalRequestId = returned
              /\ returned # before.approvalRequestId
              /\ MapHas(requests', returned[1])
              /\ requests'[returned[1]].status = "PENDING"
              /\ requests'[returned[1]].outcome = Undefined
              /\ requests'[returned[1]].createdAt = toISOString(now)
              /\ requests'[returned[1]].decisionId = before.decisionId
              /\ requests'[returned[1]].approvers = next.approvers
              /\ DOMAIN requests' = (DOMAIN requests) \cup {returned[1]}
              /\ \A other \in DOMAIN requests \ {returned[1]} : requests'[other] = requests[other]
              /\ Len(after.history) = Len(before.history) + 1
              /\ SubSeq(after.history, 1, Len(before.history)) = before.history
              /\ after.history[Len(after.history)].type = "escalated"
              /\ after.history[Len(after.history)].level = next.level
              /\ [after EXCEPT !.currentLevel = before.currentLevel,
                               !.approvalRequestId = before.approvalRequestId,
                               !.history = before.history] = before
              /\ DOMAIN records' = DOMAIN records
              /\ \A other \in DOMAIN records \ {id} : records'[other] = records[other]
    ]_vars

\* escalateToNextLevel has taken a record from L1 to L2: the record points at
\* a PENDING request addressed to the approvers of L2
C23_Witness ==
  /\ last.op = "escalateToNextLevel" /\ last.ok
  /\ IsSet(last.arg[1].returned)
  /\ MapHas(records, last.id[1])
  /\ records[last.id[1]].currentLevel = L2
  /\ records[last.id[1]].history[1].level = L1
  /\ records[last.id[1]].approvalRequestId = last.arg[1].returned
  /\ requests[last.arg[1].returned[1]].status = "PENDING"
  /\ requests[last.arg[1].returned[1]].approvers = <<"alice">>

\* the step is a triggerEscalation
Triggers == last'.op = "triggerEscalation"

\* the rule at a position of the registered rules is active, has the trigger
\* of the input, and all its conditions hold for the input
RuleApplies(i, input) ==
  /\ rules[i].active
  /\ rules[i].trigger = input.trigger
  /\ \A c \in DOMAIN rules[i].conditions :
       evaluateCondition(rules[i].conditions[c], input.decision, input.verdict)

\* the level the input is to start at: the target level of the first rule
\* that applies, L1 when no rule applies
LevelFor(input) ==
  IF \E i \in DOMAIN rules : RuleApplies(i, input)
  THEN rules[CHOOSE i \in DOMAIN rules :
               RuleApplies(i, input) /\ \A j \in 1..(i - 1) : ~ RuleApplies(j, input)].targetLevel
  ELSE L1

\* the scope the path is looked up for
ScopeFor(input) == IF IsSet(input.verdict) THEN input.verdict[1].scope ELSE AnyScope

\* the positions of the registered paths whose pattern matches the input's scope
PathsFor(input) == { i \in DOMAIN paths : scopeMatches(paths[i].scopePattern, ScopeFor(input)) }

\* the first registered path that matches has an entry for the level
Routable(input) ==
  /\ PathsFor(input) # {}
  /\ \E l \in DOMAIN paths[FirstIndex(PathsFor(input))].levels :
       paths[FirstIndex(PathsFor(input))].levels[l].level = LevelFor(input)

\* C24: triggerEscalation starts at the target level of the first active
\* registered rule whose trigger is the input's and whose conditions all hold,
\* at L1 when there is none. When a registered path matches the scope and the
\* first such path has an entry for that level, it stores one record with that
\* currentLevel and a history of the single event 'started', and one PENDING
\* request for the decision addressed to the approvers of that entry, at
\* which the record points; nothing else in the records or the queue changes.
\* Otherwise it fails and neither the records nor the queue change.
C24_TriggerStartsAtRuleLevel ==
  [][ Triggers =>
        LET input == last'.arg[1] IN
        IF Routable(input)
        THEN LET path == paths[FirstIndex(PathsFor(input))]
                 entry == path.levels[CHOOSE l \in DOMAIN path.levels :
                                        path.levels[l].level = LevelFor(input)]
                 record == records'[last'.id[1]]
                 request == requests'[record.approvalRequestId[1]]
             IN /\ last'.ok
                /\ MapHas(records', last'.id[1])
                /\ record.decisionId = input.decision.id
                /\ record.pathId = path.id
                /\ record.currentLevel = LevelFor(input)
                /\ Len(record.history) = 1
                /\ record.history[1].type = "started"
                /\ record.history[1].level = LevelFor(input)
                /\ MapHas(requests', record.approvalRequestId[1])
                /\ request.status = "PENDING"
                /\ request.outcome = Undefined
                /\ request.decisionId = input.decision.id
                /\ request.approvers = entry.approvers
                /\ DOMAIN records' = (DOMAIN records) \cup {record.id}
                /\ \A other \in DOMAIN records \ {record.id} : records'[other] = records[other]
                /\ DOMAIN requests' = (DOMAIN requests) \cup {request.id}
                /\ \A other \in DOMAIN requests \ {request.id} : requests'[other] = requests[other]
        ELSE /\ ~ last'.ok
             /\ records' = records
             /\ requests' = requests
    ]_vars

\* triggerEscalation has passed over a first rule whose condition does not
\* hold and has started a record at the target level of the second rule
C24_Witness ==
  /\ last.op = "triggerEscalation" /\ last.ok
  /\ Len(rules) = 2
  /\ rules[1].name = "large"
  /\ rules[2].name = "any"
  /\ records[last.id[1]].currentLevel = L2
  /\ records[last.id[1]].ruleId = Some(rules[2].id)
  /\ Len(records[last.id[1]].history) = 1
  /\ requests[records[last.id[1]].approvalRequestId[1]].approvers = <<"alice">>

\* the step is a processTimeouts of the manager
ManagerTimesOut == last'.op = "manager.processTimeouts"

\* the id of the request a record asked the queue for when the event at a
\* position of its history ('started' or 'escalated') was written
RequestOfEvent(record, k) ==
  LET event == record.history[k] IN
  computeContentAddress(requestData(
    [decisionId |-> record.decisionId,
     requestedBy |-> event.actorId[1],
     reason |-> IF event.type = "started"
                THEN EscalationReason(record.trigger)
                ELSE EscalatedReason(record.history[k - 1].level, event.level, event.details)],
    event.timestamp))

\* the requests a record owns: those created for it, at its start and at
\* each of its escalations
RequestsOf(record) ==
  { RequestOfEvent(record, k) :
      k \in { i \in DOMAIN record.history : record.history[i].type \in {"started", "escalated"} } }

\* the requests that the step takes to TIMED_OUT
JustTimedOut ==
  { id \in DOMAIN requests :
      requests[id].status # "TIMED_OUT" /\ requests'[id].status = "TIMED_OUT" }

\* C25: a processTimeouts of the manager appends to the history of every
\* record one 'timed_out' event for each of the record's requests that the
\* call has just timed out, and nothing else; it changes the currentLevel and
\* the approvalRequestId of no record and creates no request.
C25_TimeoutEventOnOwningRecord ==
  [][ ManagerTimesOut =>
        /\ DOMAIN records' = DOMAIN records
        /\ DOMAIN requests' = DOMAIN requests
        /\ \A id \in DOMAIN records :
             LET before == records[id]
                 after == records'[id]
                 owned == RequestsOf(before) \cap JustTimedOut
             IN /\ after.currentLevel = before.currentLevel
                /\ after.approvalRequestId = before.approvalRequestId
                /\ Len(after.history) = Len(before.history) + Cardinality(owned)
                /\ SubSeq(after.history, 1, Len(before.history)) = before.history
                /\ \A k \in (Len(before.history) + 1)..Len(after.history) :
                     after.history[k].type = "timed_out"
    ]_vars

\* one history is a prefix of another
IsPrefix(shorter, longer) ==
  /\ Len(shorter) <= Len(longer)
  /\ SubSeq(longer, 1, Len(shorter)) = shorter

\* C26: escalateToNextLevel, resolveEscalation and processTimeouts keep every
\* record, and the history a record had before the call is a prefix of the
\* history it has after; the first entry of every stored record's history is
\* its 'started' event.
C26_HistoryIsAppendOnly ==
  [][ /\ \A id \in DOMAIN records' :
           /\ Len(records'[id].history) >= 1
           /\ records'[id].history[1].type = "started"
      /\ last'.op \in {"escalateToNextLevel", "resolveEscalation", "manager.processTimeouts"}
         => \A id \in DOMAIN records :
              /\ id \in DOMAIN records'
              /\ IsPrefix(records[id].history, records'[id].history)
    ]_vars

\* processTimeouts has appended a 'timed_out' event to a record that had been
\* started and escalated
C26_Witness ==
  /\ last.op = "manager.processTimeouts"
  /\ \E id \in DOMAIN records :
       /\ Len(records[id].history) = 3
       /\ records[id].history[1].type = "started"
       /\ records[id].history[2].type = "escalated"
       /\ records[id].history[3].type = "timed_out"

(***************************************************************************)
(* Part 5: the policy conflict resolver                                    *)
(***************************************************************************)
\* largest number of entries of the resolver's policy map
MaxResolverPolicies == 3
\* largest number of resolution rules, the four default rules included
MaxResolverRules == 5

ConflictTypes ==
  {"CONTRADICTION", "OVERLAP", "CIRCULAR", "AMBIGUOUS_PRIORITY", "RESOURCE_CONTENTION"}

\* PolicyScopeDefinition: a scope pattern is the list of its parts between ':'
PolicyScopeOf(type, pattern) == [type |-> type, pattern |-> pattern]

HrPattern == <<"hr", "*">>

\* a policy as PolicyBuilder.build() returns it: PolicyDefinition has no field
\* `id`, so `policy.id` is undefined
BuiltPolicy(name, enforcement, scope, priority, metadata) ==
  [id |-> Undefined, name |-> name, enforcement |-> enforcement, scope |-> scope,
   priority |-> priority, metadata |-> metadata]

\* a policy object to which its caller has added an `id`
WithId(policy) == [policy EXCEPT !.id = Some(policy.name)]

\* metadata with a priority and a creation date
Metadata(priority, createdAt) == [priority |-> priority, createdAt |-> createdAt]

\* the policies of the scenarios: P1 and P2 overlap and contradict, P3 is
\* global, P4 overlaps neither P1 nor P2, P5 has the scope and enforcement of
\* P1, P6 is P2 with a priority set in its metadata
BuiltPolicies ==
  { BuiltPolicy("P1", "BLOCK", PolicyScopeOf("DECISION_TYPE", Some(FinancialPattern)),
                Undefined, Undefined),
    BuiltPolicy("P2", "ANNOTATE", PolicyScopeOf("DECISION_TYPE", Some(TransferScope)),
                Undefined, Undefined),
    BuiltPolicy("P3", "ESCALATE", PolicyScopeOf("GLOBAL", Undefined), Undefined, Undefined),
    BuiltPolicy("P4", "SHADOW", PolicyScopeOf("DECISION_TYPE", Some(HrPattern)),
                Undefined, Undefined),
    BuiltPolicy("P5", "BLOCK", PolicyScopeOf("DECISION_TYPE", Some(FinancialPattern)),
                Some(7), Undefined),
    BuiltPolicy("P6", "ANNOTATE", PolicyScopeOf("DECISION_TYPE", Some(TransferScope)),
                Undefined, Some(Metadata(Some(1), Some(toISOString(1))))) }

\* the arguments of registerPolicy: P1, P2 and P3 as they are built, and every
\* policy with an id added
ResolverPolicyInputs ==
  { policy \in BuiltPolicies : policy.name \in {"P1", "P2", "P3"} }
    \cup { WithId(policy) : policy \in BuiltPolicies }

\* `policy.scope.pattern ?? '*'`
patternOf(policy) == IF IsSet(policy.scope.pattern) THEN policy.scope.pattern[1] ELSE AnyScope

\* ConflictResolver.scopeMatches
resolverScopeMatches(pattern, target) ==
  IF pattern = AnyScope THEN TRUE ELSE scopeMatchesFrom(pattern, target, 1)

\* findOverlappingScope(p1, p2): the overlapping scope, or null
findOverlappingScope(p1, p2) ==
  IF p1.scope.type = "GLOBAL" \/ p2.scope.type = "GLOBAL" THEN Some(AnyScope)
  ELSE IF patternOf(p1) = patternOf(p2) THEN Some(patternOf(p1))
  ELSE IF resolverScopeMatches(patternOf(p1), patternOf(p2)) THEN Some(patternOf(p2))
  ELSE IF resolverScopeMatches(patternOf(p2), patternOf(p1)) THEN Some(patternOf(p1))
  ELSE Undefined

\* the lists of isContradiction()
restrictive == {"BLOCK", "ESCALATE"}
permissive == {"ANNOTATE"}

\* isContradiction(p1, p2)
isContradiction(p1, p2) ==
  \/ p1.enforcement \in restrictive /\ p2.enforcement \in permissive
  \/ p1.enforcement \in permissive /\ p2.enforcement \in restrictive

\* isOverlapConflict(p1, p2)
isOverlapConflict(p1, p2) == p1.enforcement # p2.enforcement

\* `p.metadata?.priority ?? 0`
metadataPriority(policy) ==
  IF IsSet(policy.metadata) /\ IsSet(policy.metadata[1].priority)
  THEN policy.metadata[1].priority[1]
  ELSE 0

\* hasAmbiguousPriority(p1, p2)
hasAmbiguousPriority(p1, p2) ==
  metadataPriority(p1) = metadataPriority(p2) /\ isOverlapConflict(p1, p2)

\* severityMap of createConflict()
severityOf(type) ==
  CASE type = "CONTRADICTION" -> 10
    [] type = "OVERLAP" -> 5
    [] type = "CIRCULAR" -> 8
    [] type = "AMBIGUOUS_PRIORITY" -> 3
    [] type = "RESOURCE_CONTENTION" -> 4

\* the ids of a list of policies: `policies.map((p) => p.id)`
policyIdsOfConflict(policies) == [i \in DOMAIN policies |-> policies[i].id]

\* createConflict(type, policies, scope, description) at clock reading at
createConflict(type, policies, scope, at) ==
  [id |-> computeContentAddress([type |-> type, policyIds |-> policyIdsOfConflict(policies),
                                 scope |-> scope]),
   type |-> type,
   policies |-> policies,
   scope |-> scope,
   severity |-> severityOf(type),
   detectedAt |-> toISOString(at)]

\* the conflicts the body of the loops of detectConflicts() pushes for a pair
conflictsOfPair(p1, p2, scope, at) ==
  LET overlappingScope == findOverlappingScope(p1, p2) IN
  IF ~ IsSet(overlappingScope) THEN << >>
  ELSE IF IsSet(scope) /\ ~ resolverScopeMatches(overlappingScope[1], scope[1]) THEN << >>
  ELSE (IF isContradiction(p1, p2)
        THEN << createConflict("CONTRADICTION", <<p1, p2>>, overlappingScope[1], at) >>
        ELSE << >>)
       \o (IF isOverlapConflict(p1, p2)
           THEN << createConflict("OVERLAP", <<p1, p2>>, overlappingScope[1], at) >>
           ELSE << >>)
       \o (IF hasAmbiguousPriority(p1, p2)
           THEN << createConflict("AMBIGUOUS_PRIORITY", <<p1, p2>>, overlappingScope[1], at) >>
           ELSE << >>)

\* the two loops of detectConflicts(), from the pair (i, j) on
RECURSIVE detectedFrom(_, _, _, _, _)
detectedFrom(policiesArray, i, j, scope, at) ==
  IF i > Len(policiesArray) THEN << >>
  ELSE IF j > Len(policiesArray) THEN detectedFrom(policiesArray, i + 1, i + 2, scope, at)
  ELSE conflictsOfPair(policiesArray[i], policiesArray[j], scope, at)
       \o detectedFrom(policiesArray, i, j + 1, scope, at)

\* `this.conflicts.set(conflict.id, conflict)` for each conflict of a list
RECURSIVE conflictsWith(_, _)
conflictsWith(stored, list) ==
  IF list = << >> THEN stored
  ELSE conflictsWith(OrderedSet(stored, Head(list)), Tail(list))

\* the policies handed to registerPolicy so far, a policy with an id taking
\* the place of the one registered with that id
registeredWith(policies, policy) ==
  { q \in policies : ~ (IsSet(q.id) /\ q.id = policy.id) } \cup {policy}

resolverRegisterPolicy(policy) ==
  /\ Len(OrderedSet(resolverPolicies, policy)) <= MaxResolverPolicies
  /\ Cardinality(registeredWith(registered, policy)) <= MaxResolverPolicies
  /\ resolverPolicies' = OrderedSet(resolverPolicies, policy)
  /\ registered' = registeredWith(registered, policy)
  /\ last' = Result("registerPolicy", Undefined, TRUE, NoError, "", Some(policy))
  /\ UNCHANGED <<resolverRules, conflicts, now>>

\* the arguments of registerRule: a rule that goes before the default rule of
\* CONTRADICTION, and a rule for a type that has no default rule
ResolutionRuleInputs ==
  { ResolutionRule("by-priority", <<"CONTRADICTION">>, "PRIORITY", 200),
    ResolutionRule("permissive-contention", <<"RESOURCE_CONTENTION">>, "MOST_PERMISSIVE", 10) }

resolverRegisterRule(rule) ==
  /\ Len(resolverRules) < MaxResolverRules
  /\ resolverRules' = rulesWith(resolverRules, rule)
  /\ last' = Result("resolver.registerRule", Undefined, TRUE, NoError, "", Some(rule))
  /\ UNCHANGED <<resolverPolicies, conflicts, registered, now>>

\* the scopes detectConflicts is called with
DetectScopes == {Undefined, Some(TransferScope)}

detectConflicts(scope) ==
  LET detected == detectedFrom(resolverPolicies, 1, 2, scope, now) IN
  /\ conflicts' = conflictsWith(conflicts, detected)
  /\ last' = Result("detectConflicts", Undefined, TRUE, NoError, "",
                    Some([scope |-> scope, returned |-> detected]))
  /\ UNCHANGED <<resolverPolicies, resolverRules, registered, now>>

clearConflicts ==
  /\ conflicts # << >>
  /\ conflicts' = << >>
  /\ last' = Result("clearConflicts", Undefined, TRUE, NoError, "", Undefined)
  /\ UNCHANGED <<resolverPolicies, resolverRules, registered, now>>

\* ResolutionResult
ResolutionResult(resolved, strategy, winningPolicy, needsEscalation) ==
  [resolved |-> resolved, strategy |-> strategy, winningPolicy |-> winningPolicy,
   needsEscalation |-> needsEscalation]

\* `[...conflict.policies].sort(compare)[0]` for a comparison by a key: the
\* sort is stable, so the winner is the first policy whose key is smallest;
\* undefined when there is no policy
winnerOf(policies, keys) ==
  FirstOf(policies, { i \in DOMAIN policies : \A j \in DOMAIN policies : keys[i] <= keys[j] })

\* what each strategy returns once the winner is known
resolutionOf(strategy, winner) ==
  IF IsSet(winner)
  THEN ResolutionResult(TRUE, strategy, winner, FALSE)
  ELSE ResolutionResult(FALSE, strategy, Undefined, TRUE)

\* Array.prototype.indexOf on a list of enforcement modes, -1 when absent
indexOfMode(order, mode) ==
  IF \E i \in DOMAIN order : order[i] = mode
  THEN FirstIndex({ i \in DOMAIN order : order[i] = mode }) - 1
  ELSE -1

\* variant: the order of resolveByPermissiveness
restrictiveOrder_Reversed == <<"SHADOW", "ANNOTATE", "ESCALATE", "BLOCK">>
\* enforcementOrder of resolveByRestrictiveness()
restrictiveOrder == <<"BLOCK", "ESCALATE", "ANNOTATE", "SHADOW">>
\* enforcementOrder of resolveByPermissiveness()
permissiveOrder == <<"SHADOW", "ANNOTATE", "ESCALATE", "BLOCK">>

\* the length of a scope pattern as a string: its parts and the ':' between
RECURSIVE patternLength(_)
patternLength(pattern) ==
  IF pattern = << >> THEN 0
  ELSE Len(Head(pattern)) + (IF Len(pattern) > 1 THEN 1 ELSE 0) + patternLength(Tail(pattern))

resolveBySpecificity(conflict) ==
  resolutionOf("MOST_SPECIFIC",
    winnerOf(conflict.policies,
             [i \in DOMAIN conflict.policies |-> 0 - patternLength(patternOf(conflict.policies[i]))]))

resolveByRestrictiveness(conflict) ==
  resolutionOf("MOST_RESTRICTIVE",
    winnerOf(conflict.policies,
             [i \in DOMAIN conflict.policies |->
                indexOfMode(restrictiveOrder, conflict.policies[i].enforcement)]))

resolveByPermissiveness(conflict) ==
  resolutionOf("MOST_PERMISSIVE",
    winnerOf(conflict.policies,
             [i \in DOMAIN conflict.policies |->
                indexOfMode(permissiveOrder, conflict.policies[i].enforcement)]))

resolveByPriority(conflict) ==
  resolutionOf("PRIORITY",
    winnerOf(conflict.policies,
             [i \in DOMAIN conflict.policies |-> 0 - metadataPriority(conflict.policies[i])]))

\* `(p.metadata?.createdAt as string) ?? ''` as a sort key: '' comes before
\* every date, and the dates of the model are in the order of their instants
createdKey(policy) ==
  IF IsSet(policy.metadata) /\ IsSet(policy.metadata[1].createdAt)
  THEN policy.metadata[1].createdAt[1].ms + 1
  ELSE 0

resolveByNewest(conflict) ==
  resolutionOf("NEWEST",
    winnerOf(conflict.policies,
             [i \in DOMAIN conflict.policies |-> 0 - createdKey(conflict.policies[i])]))

\* applyRule(rule, conflict); no rule of the model has a custom resolver
applyRule(rule, conflict) ==
  CASE rule.strategy = "MOST_SPECIFIC" -> resolveBySpecificity(conflict)
    [] rule.strategy = "MOST_RESTRICTIVE" -> resolveByRestrictiveness(conflict)
    [] rule.strategy = "MOST_PERMISSIVE" -> resolveByPermissiveness(conflict)
    [] rule.strategy = "PRIORITY" -> resolveByPriority(conflict)
    [] rule.strategy = "NEWEST" -> resolveByNewest(conflict)
    [] OTHER -> ResolutionResult(FALSE, "ESCALATE", Undefined, TRUE)

\* `this.rules.find((r) => r.conflictTypes.includes(conflict.type))`
ruleFor(conflict) ==
  FirstOf(resolverRules,
          { i \in DOMAIN resolverRules : includes(resolverRules[i].conflictTypes, conflict.type) })

\* what resolve(conflict) returns
resolution(conflict) ==
  IF ~ IsSet(ruleFor(conflict))
  THEN ResolutionResult(FALSE, "ESCALATE", Undefined, TRUE)
  ELSE applyRule(ruleFor(conflict)[1], conflict)

\* the pairs of policies of the conflicts a caller builds: P1 and P2, in
\* either order
CallerPairs ==
  { <<p, q>> : p, q \in { b \in BuiltPolicies : b.name \in {"P1", "P2"} } } \ { <<p, p>> : p \in BuiltPolicies }

\* the conflicts resolve is called with: those detectConflicts has stored,
\* and conflicts built by the caller, among them the types detectConflicts
\* never reports
CallConflicts ==
  { conflicts[i] : i \in DOMAIN conflicts }
    \cup { createConflict(type, pair, TransferScope, now) :
             type \in {"CONTRADICTION", "CIRCULAR", "RESOURCE_CONTENTION"}, pair \in CallerPairs }

resolve(conflict) ==
  /\ last' = Result("resolve", Undefined, TRUE, NoError, "",
                    Some([conflict |-> conflict, returned |-> resolution(conflict)]))
  /\ UNCHANGED <<resolverVars, now>>

\* the calls of the model are made within one millisecond
ConflictNext ==
  \/ \E policy \in ResolverPolicyInputs :
       resolverRegisterPolicy(policy)
         /\ UNCHANGED <<lifecycleVars, engineVars, queueVars, managerVars, historyVars>>
  \/ \E rule \in ResolutionRuleInputs :
       resolverRegisterRule(rule)
         /\ UNCHANGED <<lifecycleVars, engineVars, queueVars, managerVars, historyVars>>
  \/ \E scope \in DetectScopes :
       detectConflicts(scope)
         /\ UNCHANGED <<lifecycleVars, engineVars, queueVars, managerVars, historyVars>>
  \/ clearConflicts /\ UNCHANGED <<lifecycleVars, engineVars, queueVars, managerVars, historyVars>>
  \/ \E conflict \in CallConflicts :
       resolve(conflict)
         /\ UNCHANGED <<lifecycleVars, engineVars, queueVars, managerVars, historyVars>>

ConflictSpec == Init /\ [][ConflictNext]_vars

(***************************************************************************)
(* The conflict resolver: properties                                       *)
(***************************************************************************)
\* detectConflicts() has returned: the call was made without a scope
Detected == last.op = "detectConflicts" /\ last.arg[1].scope = Undefined

\* the scopes of two policies overlap: one of them is global, or the pattern
\* of one contains the pattern of the other
ScopesOverlap(p, q) ==
  \/ p.scope.type = "GLOBAL"
  \/ q.scope.type = "GLOBAL"
  \/ resolverScopeMatches(patternOf(p), patternOf(q))
  \/ resolverScopeMatches(patternOf(q), patternOf(p))

\* one enforcement is BLOCK or ESCALATE and the other is ANNOTATE
Contradictory(p, q) ==
  \/ p.enforcement \in {"BLOCK", "ESCALATE"} /\ q.enforcement = "ANNOTATE"
  \/ q.enforcement \in {"BLOCK", "ESCALATE"} /\ p.enforcement = "ANNOTATE"

\* the positions of the returned list that hold a conflict of a type between
\* two policies
ReportedFor(type, p, q) ==
  { k \in DOMAIN last.arg[1].returned :
      /\ last.arg[1].returned[k].type = type
      /\ last.arg[1].returned[k].policies \in { <<p, q>>, <<q, p>> } }

\* C27: every conflict detectConflicts() returns is between two registered
\* policies whose scopes overlap; for every two registered policies whose
\* scopes overlap it returns one CONTRADICTION when one enforcement is BLOCK or
\* ESCALATE and the other ANNOTATE and none otherwise, and one OVERLAP when the
\* enforcements differ and none otherwise; when P1 (BLOCK, financial:*) and P2
\* (ANNOTATE, financial:transfer) are the registered policies, exactly one of
\* the returned conflicts is a CONTRADICTION.
C27_ConflictsOfOverlappingPairs ==
  Detected =>
    /\ \A k \in DOMAIN last.arg[1].returned :
         \E p, q \in registered :
           /\ p # q
           /\ last.arg[1].returned[k].policies = <<p, q>>
           /\ ScopesOverlap(p, q)
    /\ \A p, q \in registered :
         (p # q /\ ScopesOverlap(p, q))
         => /\ Cardinality(ReportedFor("CONTRADICTION", p, q))
                 = (IF Contradictory(p, q) THEN 1 ELSE 0)
            /\ Cardinality(ReportedFor("OVERLAP", p, q))
                 = (IF p.enforcement # q.enforcement THEN 1 ELSE 0)
    /\ { policy.name : policy \in registered } = {"P1", "P2"}
       => Cardinality({ k \in DOMAIN last.arg[1].returned :
                          last.arg[1].returned[k].type = "CONTRADICTION" }) = 1

\* resolve() has returned and the resolver has its default rules only
ResolvedByDefault == last.op = "resolve" /\ resolverRules = defaultRules

\* the rank of an enforcement in BLOCK > ESCALATE > ANNOTATE > SHADOW
Restrictiveness(enforcement) ==
  CASE enforcement = "BLOCK" -> 4
    [] enforcement = "ESCALATE" -> 3
    [] enforcement = "ANNOTATE" -> 2
    [] enforcement = "SHADOW" -> 1

\* C28: with the default rules only, resolve() of a CONTRADICTION returns
\* strategy MOST_RESTRICTIVE and as winningPolicy a policy of the conflict that
\* no policy of the conflict outranks in BLOCK > ESCALATE > ANNOTATE > SHADOW
\* (P1 for P1 against P2); of an OVERLAP, strategy MOST_SPECIFIC; of an
\* AMBIGUOUS_PRIORITY, strategy NEWEST; of a CIRCULAR conflict,
\* needsEscalation; of a conflict of a type without rule, resolved = false and
\* needsEscalation.
C28_DefaultRulesResolve ==
  ResolvedByDefault =>
    LET conflict == last.arg[1].conflict
        returned == last.arg[1].returned
    IN /\ conflict.type = "CONTRADICTION"
          => /\ returned.strategy = "MOST_RESTRICTIVE"
             /\ returned.resolved
             /\ IsSet(returned.winningPolicy)
             /\ includes(conflict.policies, returned.winningPolicy[1])
             /\ \A i \in DOMAIN conflict.policies :
                  Restrictiveness(returned.winningPolicy[1].enforcement)
                    >= Restrictiveness(conflict.policies[i].enforcement)
             /\ { conflict.policies[i].name : i \in DOMAIN conflict.policies } = {"P1", "P2"}
                => returned.winningPolicy[1].name = "P1"
       /\ conflict.type = "OVERLAP" => returned.strategy = "MOST_SPECIFIC"
       /\ conflict.type = "AMBIGUOUS_PRIORITY" => returned.strategy = "NEWEST"
       /\ conflict.type = "CIRCULAR" => returned.needsEscalation
       /\ conflict.type = "RESOURCE_CONTENTION"
          => ~ returned.resolved /\ returned.needsEscalation

\* resolve() has returned P1 for a CONTRADICTION that detectConflicts() had
\* stored between P2, registered first, and P1
C28_Witness ==
  /\ ResolvedByDefault
  /\ last.arg[1].conflict.type = "CONTRADICTION"
  /\ includes(conflicts, last.arg[1].conflict)
  /\ last.arg[1].conflict.policies[1].name = "P2"
  /\ last.arg[1].conflict.policies[2].name = "P1"
  /\ last.arg[1].returned.strategy = "MOST_RESTRICTIVE"
  /\ last.arg[1].returned.winningPolicy = Some(last.arg[1].conflict.policies[2])

(***************************************************************************)
(* The approval workflow: the decision state machine of Part 1 and the     *)
(* approval queue of Part 3 in one program.  Neither class calls the       *)
(* other: the caller asks the queue for a request when a decision is       *)
(* PENDING_APPROVAL, and calls the methods of both.                        *)
(***************************************************************************)
\* the requests the caller asks for: addressed to bob, expiring at once or
\* after the default timeout
WorkflowRequestInputs ==
  { input \in CreateApprovalRequestInputs :
      input.approvers = <<"bob">> /\ input.timeoutMs \in {Undefined, Some(0)} }

\* the verdict that sends a decision to PENDING_APPROVAL
EscalateVerdict(id) == [decisionId |-> id, result |-> "ESCALATE"]

aroundQueue == <<lifecycleVars, engineVars, managerVars, historyVars, resolverVars>>

WorkflowNext ==
  \/ Tick /\ UNCHANGED aroundLifecycle
  \/ \E input \in ProposeInputs : Propose(input) /\ UNCHANGED aroundLifecycle
  \/ \E id \in AllIds : Evaluate(id, EscalateVerdict(id)) /\ UNCHANGED aroundLifecycle
  \/ \E input \in WorkflowRequestInputs :
       /\ MapHas(decisions, input.decisionId)
       /\ decisions[input.decisionId].state = "PENDING_APPROVAL"
       /\ CreateRequest(input)
       /\ UNCHANGED aroundQueue
  \/ \E requestId \in AllRequestIds, decision \in Decisions :
       RecordDecision(requestId, decision, "bob", Undefined) /\ UNCHANGED aroundQueue
  \/ ProcessTimeouts("reject") /\ UNCHANGED aroundQueue
  \/ \E id \in AllIds : Approve(id, "bob", Undefined) /\ UNCHANGED aroundLifecycle
  \/ \E id \in AllIds : Reject(id, Undefined) /\ UNCHANGED aroundLifecycle
  \/ \E id \in AllIds : CommitStart(id) /\ UNCHANGED aroundLifecycle
  \/ \E c \in Suspended : CommitWrite(c) /\ UNCHANGED aroundLifecycle
  \/ \E c \in Suspended : CommitSettle(c) /\ UNCHANGED aroundLifecycle

WorkflowSpec == Init /\ [][WorkflowNext]_vars

\* the request the queue holds for a decision (getRequestForDecision) has
\* been resolved as REJECTED or TIMED_OUT
Refused(id) ==
  /\ MapHas(byDecision, id)
  /\ MapHas(requests, byDecision[id])
  /\ requests[byDecision[id]].status \in {"REJECTED", "TIMED_OUT"}

\* the decision is stored and COMMITTED
Committed(id) == MapHas(decisions, id) /\ decisions[id].state = "COMMITTED"

\* C29: no step takes to COMMITTED a decision whose approval request is, at
\* that step, already resolved as REJECTED or TIMED_OUT.
C29_RefusedNeverCommits ==
  [][ \A id \in DecisionIds : (Refused(id) /\ ~ Committed(id)) => ~ Committed(id)' ]_vars

(***************************************************************************)
(* The decision state machine handed arbitrary verdicts                    *)
(***************************************************************************)
\* every DecisionVerdict a caller can hand to evaluate(): evaluate() takes the
\* verdict as a parameter next to the decision's id, so the decision a verdict
\* was computed for and the decision evaluated are chosen independently
Verdicts == [decisionId : AllIds, result : VerdictResults]

\* propose, evaluate and commit, with evaluate() handed any verdict
VerdictNext ==
  \/ Tick /\ UNCHANGED aroundLifecycle
  \/ \E input \in ProposeInputs : Propose(input) /\ UNCHANGED aroundLifecycle
  \/ \E id \in AllIds, verdict \in Verdicts : Evaluate(id, verdict) /\ UNCHANGED aroundLifecycle
  \/ \E id \in AllIds : CommitStart(id) /\ UNCHANGED aroundLifecycle
  \/ \E c \in Suspended : CommitWrite(c) /\ UNCHANGED aroundLifecycle
  \/ \E c \in Suspended : CommitSettle(c) /\ UNCHANGED aroundLifecycle

VerdictSpec == Init /\ [][VerdictNext]_vars

\* C30: the verdict attached to a stored decision names that decision
\* (verdict.decisionId equals the decision's id), so evaluate(id, verdict) with
\* a verdict computed for another decision has not attached it.
C30_VerdictNamesItsDecision ==
  \A id \in DOMAIN decisions :
    IsSet(decisions[id].verdict) => decisions[id].verdict[1].decisionId = id

\* the requests stored for a decision that are PENDING or IN_REVIEW
OpenRequestsOf(queue, decisionId) ==
  { id \in DOMAIN queue : queue[id].decisionId = decisionId /\ Unresolved(queue[id]) }

\* C31: an escalateToNextLevel that creates the next level's request leaves
\* the record's decision with at most one request that is PENDING or
\* IN_REVIEW: the request of the previous level, which the record pointed at
\* before, is no longer open to its approvers.
C31_EscalationSupersedesRequest ==
  [][ \A id \in DOMAIN records :
        (EscalatesRecord(id) /\ last'.ok /\ IsSet(last'.arg[1].returned))
        => /\ Cardinality(OpenRequestsOf(requests', records[id].decisionId)) <= 1
           /\ LET previous == records[id].approvalRequestId[1]
              IN (MapHas(requests', previous) /\ Some(previous) # last'.arg[1].returned)
                   => ~ Unresolved(requests'[previous])
    ]_vars

(***************************************************************************)
(* Decision lifecycle: conclusion time                                     *)
(***************************************************************************)
\* C32: after every step, each stored decision has concludedAt set exactly
\* when its state is COMMITTED, REJECTED or CANCELLED, and a step in which
\* approve() returns, or evaluate() returns with an ALLOW, ANNOTATE or
\* ESCALATE verdict, leaves the decision's concludedAt unset.
C32_ConcludedIffTerminal ==
  [][ /\ \A id \in DOMAIN decisions' :
           IsSet(decisions'[id].concludedAt) <=> decisions'[id].state \in TerminalStates
      /\ \A id \in DOMAIN decisions :
           ( /\ last'.ok /\ last'.id = Some(id)
             /\ \/ last'.op = "approve"
                \/ last'.op = "evaluate" /\ last'.arg[1].result \in {"ALLOW", "ANNOTATE", "ESCALATE"} )
           => decisions'[id].concludedAt = Undefined
    ]_vars

\* a decision escalated by evaluate() and then approved has been committed:
\* it is terminal with concludedAt set, and its approval is attached
C32_Witness ==
  /\ last.op = "commit" /\ last.ok
  /\ MapHas(decisions, last.id[1])
  /\ decisions[last.id[1]].state = "COMMITTED"
  /\ IsSet(decisions[last.id[1]].concludedAt)
  /\ IsSet(decisions[last.id[1]].approval)
  /\ HasVerdict(decisions[last.id[1]], "ESCALATE")

(***************************************************************************)
(* The policy engine: further properties                                   *)
(***************************************************************************)
\* C33: an evaluatePolicy call on a policy that is active at the context's
\* timestamp and whose rule.format has no registered evaluator throws to its
\* caller instead of returning a verdict.
C33_MissingFormatIsHardError ==
  ( /\ evaluation.call = "evaluatePolicy"
    /\ isPolicyActive(evaluation.policies[evaluation.index], evaluation.context.timestamp)
    /\ evaluation.policies[evaluation.index].rule.format \notin RegisteredFormats )
  => evaluation.settled.threw

\* a list without its i-th entry
Without(list, i) == SubSeq(list, 1, i - 1) \o SubSeq(list, i + 1, Len(list))

\* the elements of a list
Range(list) == { list[i] : i \in DOMAIN list }

\* C34: for every SHADOW policy of the list handed to an evaluateAll that
\* returned, evaluateAll on the list without that policy returns the same
\* result, and the SHADOW policy is neither in blockingPolicies nor in
\* escalatingPolicies.
C34_ShadowDoesNotInterfere ==
  (evaluation.call = "evaluateAll" /\ ~ evaluation.settled.threw)
  => \A i \in DOMAIN evaluation.policies :
       evaluation.policies[i].enforcement = "SHADOW"
       => LET without == evaluateAll(Without(evaluation.policies, i), evaluation.context, now)
              policyId == computeContentAddress(evaluation.policies[i])
          IN /\ ~ without.threw
             /\ without.value.result = evaluation.settled.value.result
             /\ policyId \notin Range(evaluation.settled.value.blockingPolicies)
             /\ policyId \notin Range(evaluation.settled.value.escalatingPolicies)

\* the history of the record holds a 'resolved' event
Resolved(record) == \E k \in DOMAIN record.history : record.history[k].type = "resolved"

\* C35: once the history of a record holds a 'resolved' event, no
\* resolveEscalation, escalateToNextLevel or processTimeouts of the manager
\* appends an event to it, and an escalateToNextLevel on the record adds no
\* request to the approval queue.
C35_ResolvedIsClosed ==
  [][ \A id \in DOMAIN records :
        ( /\ Resolved(records[id])
          /\ last'.op \in {"resolveEscalation", "escalateToNextLevel", "manager.processTimeouts"} )
        => /\ records'[id].history = records[id].history
           /\ EscalatesRecord(id) => DOMAIN requests' = DOMAIN requests
    ]_vars

\* C36: with requests created only by the escalation manager, the record
\* getRecordForDecision(d) returns has an approvalRequestId that names a
\* request stored in the approval queue for decision d, and that request is
\* the one getRequestForDecision(d) returns.
C36_RecordPointsAtCurrentRequest ==
  \A d \in DOMAIN recordByDecision :
    MapHas(records, recordByDecision[d])
    => LET record == records[recordByDecision[d]] IN
       /\ IsSet(record.approvalRequestId)
       /\ MapHas(requests, record.approvalRequestId[1])
       /\ requests[record.approvalRequestId[1]].decisionId = d
       /\ MapHas(byDecision, d)
       /\ byDecision[d] = record.approvalRequestId[1]

(***************************************************************************)
(* Decision lifecycle: the frame of propose                                *)
(***************************************************************************)
\* C37: a propose() leaves every decision that was stored before it with the
\* state, the verdict and the approval it had, also when the id of the new
\* proposal is that of a stored decision.
C37_ProposeKeepsStoredDecisions ==
  [][ last'.op = "propose"
      => \A id \in DOMAIN decisions :
           /\ StoredAfter(id)
           /\ decisions'[id].state = decisions[id].state
           /\ decisions'[id].verdict = decisions[id].verdict
           /\ decisions'[id].approval = decisions[id].approval
    ]_vars

\* the order ALLOW < ANNOTATE < ESCALATE < DENY
ResultRank(result) ==
  CASE result = "ALLOW" -> 0 [] result = "ANNOTATE" -> 1
    [] result = "ESCALATE" -> 2 [] result = "DENY" -> 3

\* the more restrictive of two results
MoreRestrictive(a, b) == IF ResultRank(a) >= ResultRank(b) THEN a ELSE b

\* evaluateAll on a part of the list handed to the call the state records
AllOf(part) == evaluateAll(part, evaluation.context, now)

HasExplicitPriority(policy) ==
  \/ IsSet(policy.priority)
  \/ IsSet(policy.metadata) /\ IsSet(policy.metadata[1].priority)

\* C39: every AMBIGUOUS_PRIORITY conflict detectConflicts() returns is
\* between two policies that both carry an explicit numeric priority and
\* whose enforcements differ; a pair in which a policy has no priority set is
\* not reported as AMBIGUOUS_PRIORITY.
C39_AmbiguousOnlyWithExplicitPriorities ==
  Detected =>
    \A k \in DOMAIN last.arg[1].returned :
      LET conflict == last.arg[1].returned[k] IN
      conflict.type = "AMBIGUOUS_PRIORITY"
      => /\ HasExplicitPriority(conflict.policies[1])
         /\ HasExplicitPriority(conflict.policies[2])
         /\ conflict.policies[1].enforcement # conflict.policies[2].enforcement

(***************************************************************************)
(* The approval queue under a recurring timeout scan                       *)
(***************************************************************************)
\* number of days the clock of this specification runs over
MaxDays == 1

\* the clock readings of this specification: the first milliseconds, and the
\* two milliseconds that follow each full day (the default timeout is one day)
Instants ==
  (0..MaxClock) \cup { d * defaultTimeoutMs + k : d \in 1..MaxDays, k \in 0..1 }

\* the last reading of the clock
LastInstant == MaxDays * defaultTimeoutMs + 1

\* time passes between two calls: the clock is read at t the next time
Advance(t) ==
  /\ t \in Instants
  /\ t > now
  /\ now' = t
  /\ last' = Result("tick", Undefined, TRUE, NoError, "", Undefined)
  /\ UNCHANGED <<decisions, transactions, calls>>

\* the ids of the requests created at the readings of this clock
TimeoutRequestIds ==
  { createdRequest(input, t).id : input \in CreateApprovalRequestInputs, t \in Instants }
    \cup {MissingRequestId}

\* the timeout scan of the queue
TimeoutScan == ProcessTimeouts("reject") /\ UNCHANGED aroundQueue

\* the clock advancing
ClockAdvances ==
  \E t \in Instants :
    Advance(t) /\ UNCHANGED <<engineVars, queueVars, managerVars, historyVars, resolverVars>>

\* requests are created while the clock still runs past their expiry, a
\* reviewer may take a request under review, and nobody decides or withdraws
TimeoutNext ==
  \/ ClockAdvances
  \/ \E input \in CreateApprovalRequestInputs :
       /\ isoBefore(createdRequest(input, now).expiresAt, toISOString(LastInstant))
       /\ CreateRequest(input)
       /\ UNCHANGED aroundQueue
  \/ \E requestId \in TimeoutRequestIds :
       StartReview(requestId, "bob") /\ UNCHANGED aroundQueue
  \/ TimeoutScan

\* the scan recurs and the clock advances
TimeoutSpec ==
  Init /\ [][TimeoutNext]_vars /\ WF_vars(TimeoutScan) /\ WF_vars(ClockAdvances)

====
